---------------------------- MODULE Spec2Model ----------------------------
(***************************************************************************)
(* A model of the TSCN parser (package tscnparser): Parse,                 *)
(* TSCNConverter.ConvertTSCNToTileMap, the section scanner                 *)
(* convertTSCNToTileMap with its per-section handlers, the layer pass      *)
(* parseLayersFromTSCN with the tile codec convertTileDataFormat, and the  *)
(* prefab enrichment getPrefabInfo / buildPrefabNodes.                     *)
(*                                                                         *)
(* A document is a sequence of lines.  A line is a record holding what the *)
(* code's prefix tests and regular expressions extract from its text:      *)
(*   hdr    the trimmed line begins with "["                               *)
(*   marks  the markers strings.Contains finds in a header                 *)
(*   key    the key prefix of a property line                              *)
(*   ids    the matches of \sid="..." in order; name, parent, typ, path,   *)
(*          uid the first match of name=, parent=, type=, path=, uid=      *)
(*          (attributes stand in the order type, uid, path, id)            *)
(*   prop, val  key and raw value of a generic "key = value" line          *)
(*   ref    the id inside ExtResource("...") or SubResource("...")         *)
(*   n      the \d+ number of a sources/<n> or layer_<n>/ key (-1: none)   *)
(*   data   the numbers of a packed array                                  *)
(*   vec    the numbers of a Vector2(..), or the one number after "="      *)
(*          (empty when it does not parse)                                 *)
(* float64 values of the source are modelled by integers.                  *)
(* An optional value (a Go pointer that may be nil) is a sequence of       *)
(* length at most one; a nil error is the empty string.                    *)
(***************************************************************************)
EXTENDS Integers, Sequences, FiniteSets, TLC

\* ------------------------------------------------------------ bounds
\* longest document of the generated families
MaxLines == 4
\* longest packed array of the codec family
MaxInts == 5
\* magnitude of the small tile coordinates tried besides the 16-bit extremes
CoordBound == 1

\* ------------------------------------------------ program constants
Mask16 == 65535
SignBit16 == 32768
Wrap16 == 65536
BoundsSentinel == 1000000
DefaultTile == 16

VARIABLES
  pc,                  \* position in Parse / ConvertTSCNToTileMap
  inputFile,           \* argument of Parse
  file,                \* what the file system does with inputFile
  doc,                 \* the lines of the document
  idx,                 \* next line of the scanner
  c,                   \* the TSCNConverter
  currentSection,      \* locals of convertTSCNToTileMap
  currentSubResource,
  format,
  layers,
  minTileX, maxTileX, minTileY, maxTileY, tileTotalCount,  \* package globals
  tilemapTileSize, tilemapOffset, prefabsDirectory,        \* package configuration
  fs,                  \* prefab files: resolved path -> <<>> or <<lines>>
  parseCalls,          \* instrumentation: parsePrefabFile calls per declared path
  data, err,           \* what ConvertTSCNToTileMap returns
  tileData, newData,   \* argument and result of a direct convertTileDataFormat call
  pc2, doc2, result2,  \* a second Parse call in the same process: its position,
                       \* its document, and the <<error, WorldTileSize>> it returns
  jsonStr,             \* applyReplacementsFromFile: the text, as a sequence of characters
  replacementsFile,    \* what reading and decoding the replacements file does
  replacements,        \* config.Replacements: a sequence of [Old, New]
  replaced             \* what applyReplacementsFromFile returns

vars == <<pc, inputFile, file, doc, idx, c, currentSection, currentSubResource,
          format, layers, minTileX, maxTileX, minTileY, maxTileY, tileTotalCount,
          tilemapTileSize, tilemapOffset, prefabsDirectory, fs, parseCalls,
          data, err, tileData, newData, pc2, doc2, result2,
          jsonStr, replacementsFile, replacements, replaced>>

\* ------------------------------------------------------------ helpers
Last(s) == s[Len(s)]

RECURSIVE SeqsUpTo(_, _)
SeqsUpTo(S, n) ==
  IF n = 0 THEN {<<>>}
  ELSE LET shorter == SeqsUpTo(S, n - 1)
       IN  shorter \cup {Append(s, x) : s \in {t \in shorter : Len(t) = n - 1}, x \in S}

\* ------------------------------------------------------------ tile codec
\* A packed integer (a Go int, 64 bits) is held as <<hi, lo>> with value
\* hi * 2^16 + lo and lo in 0..65535, so that the encodings at and above 2^31
\* are representable.
Word(hi, lo) == <<hi, lo>>
ToWord(v) == <<v \div Wrap16, v % Wrap16>>
Value(w) == w[1] * Wrap16 + w[2]

\* w & 0xFFFF on a two's complement int
And16(w) == w[2] % (Mask16 + 1)

\* (w >> 16) & 0xFFFF: the arithmetic shift leaves hi, the mask its low 16 bits
Shr16And16(w) == w[1] % (Mask16 + 1)

SignExtendWrong(v) == IF v > SignBit16 THEN v - Wrap16 ELSE v

\* if v >= 0x8000 { v -= 0x10000 }
SignExtend(v) == IF v >= SignBit16 THEN v - Wrap16 ELSE v

\* a division that rounds toward minus infinity
TruncDivWrong(a, b) == a \div b

\* int(a / float64(b)): float division truncated toward zero
TruncDiv(a, b) == IF a >= 0 THEN a \div b ELSE -((-a) \div b)

Min(a, b) == IF a < b THEN a ELSE b
Max(a, b) == IF a > b THEN a ELSE b

\* the accumulators convertTileDataFormat reads and writes
Bounds == [minX |-> minTileX, maxX |-> maxTileX, minY |-> minTileY,
           maxY |-> maxTileY, count |-> tileTotalCount]

GroupCompleteWrong(i, lenght) == i + 3 < lenght

\* the loop's guard at 0-based index i: i < lenght and not (i+2 >= lenght)
GroupComplete(i, lenght) == i < lenght /\ ~(i + 2 >= lenght)

\* one iteration of the loop of convertTileDataFormat on the group at 0-based i
ConvertGroup(td, i, acc, ox, oy) ==
  LET tilePos      == td[i + 1]
      sourceID     == td[i + 2]
      atlasEncoded == td[i + 3]
      tileX == SignExtend(And16(tilePos))
      tileY == SignExtend(Shr16And16(tilePos))
      atlasX == And16(atlasEncoded)
      atlasY == Shr16And16(atlasEncoded)
  IN  [data  |-> acc.data \o <<Value(sourceID), tileX + ox, -(tileY + oy), atlasX, atlasY>>,
       minX  |-> Min(acc.minX, tileX),
       maxX  |-> Max(acc.maxX, tileX),
       minY  |-> Min(acc.minY, tileY),
       maxY  |-> Max(acc.maxY, tileY),
       count |-> acc.count + 1]

RECURSIVE ConvertFrom(_, _, _, _, _)
ConvertFrom(td, i, acc, ox, oy) ==
  IF GroupComplete(i, Len(td))
  THEN ConvertFrom(td, i + 3, ConvertGroup(td, i, acc, ox, oy), ox, oy)
  ELSE acc

\* convertTileDataFormat(tileData) started with the accumulators b: the new
\* array and the accumulators it leaves
ConvertTileDataFormat(td, b) ==
  ConvertFrom(td, 0,
              [data |-> <<>>, minX |-> b.minX, maxX |-> b.maxX, minY |-> b.minY,
               maxY |-> b.maxY, count |-> b.count],
              TruncDiv(tilemapOffset.X, tilemapTileSize.Width),
              TruncDiv(tilemapOffset.Y, tilemapTileSize.Height))

\* ------------------------------------------------------------ lines
\* paths are token sequences, so that TrimPrefix has something to trim
Unknown == <<"unknown">>

ShapeTypes == {"RectangleShape2D", "CircleShape2D", "CapsuleShape2D",
               "ConvexPolygonShape2D", "ConcavePolygonShape2D"}

BlankLine == [hdr |-> FALSE, marks |-> {}, key |-> "", ids |-> <<>>, name |-> "",
              parent |-> "", typ |-> "", path |-> <<>>, uid |-> "", ref |-> "",
              n |-> -1, data |-> <<>>, vec |-> <<>>, prop |-> "", val |-> ""]

Header(marks) == [BlankLine EXCEPT !.hdr = TRUE, !.marks = marks]
Property(key) == [BlankLine EXCEPT !.key = key]

\* [ext_resource type=".." uid=".." path=".." id=".."]
ExtResourceLine(typ, uid, path, ids) ==
  [Header({"ext_resource"}) EXCEPT !.typ = typ, !.uid = uid, !.path = path, !.ids = ids]
\* [sub_resource type=".." id=".."]
SubResourceLine(typ, id) ==
  [Header({"sub_resource"}) EXCEPT !.typ = typ, !.ids = IF id = "" THEN <<>> ELSE <<id>>]
\* [node name="TileMap" type="TileMap"]
TileMapLine == [Header({"TileMap"}) EXCEPT !.name = "TileMap", !.typ = "TileMap"]
\* [node name=".." type="Sprite2D" parent=".."]
Sprite2DLine(name, parent) ==
  [Header({"Sprite2D"}) EXCEPT !.name = name, !.parent = parent, !.typ = "Sprite2D"]
\* [node name=".." parent=".." instance=ExtResource("..")]
InstanceLine(name, parent, ref) ==
  [Header({"instance"}) EXCEPT !.name = name, !.parent = parent, !.ref = ref]
\* any other header, such as [gd_scene ...] or [node name=".." type="Node2D"]
OtherLine(name) == [Header({}) EXCEPT !.name = name]

TextureLine(ref) == [Property("texture") EXCEPT !.ref = ref]
SourcesLine(n, ref) == [Property("sources") EXCEPT !.n = n, !.ref = ref]
PhysicsLine(flat) == [Property("physics") EXCEPT !.data = flat]
SizeLine(v) == [Property("size") EXCEPT !.vec = v]
RadiusLine(v) == [Property("radius") EXCEPT !.vec = v]
PointsLine(flat) == [Property("points") EXCEPT !.data = flat]
PositionLine(v) == [Property("position") EXCEPT !.vec = v]
ScaleLine(v) == [Property("scale") EXCEPT !.vec = v]
RotationLine(v) == [Property("rotation") EXCEPT !.vec = v]
ZIndexLine(v) == [Property("z_index") EXCEPT !.vec = v]
GidLine(v) == [Property("gid") EXCEPT !.vec = v]
GenericLine(k, v) == [Property("generic") EXCEPT !.prop = k, !.val = v]
FormatLine(v) == [Property("format") EXCEPT !.vec = v]
\* layer_<n>/name = "<name>"; n = -1 when the text before /name is no integer
LayerNameLine(n, name) == [Property("layer_name") EXCEPT !.n = n, !.name = name]
\* layer_<n>/z_index = <z>
LayerZLine(v) == [Property("layer_z") EXCEPT !.vec = v]
\* layer_<n>/tile_data = PackedInt32Array(<ints>)
TileDataLine(n, ints) == [Property("tile_data") EXCEPT !.n = n, !.data = ints]
\* an empty line or a # comment
CommentLine == Property("comment")

\* ------------------------------------------------------------ values
Vec(x, y) == [X |-> x, Y |-> y]
EmptyMap == [k \in {} |-> k]
Put(m, k, v) == (k :> v) @@ m
Has(m, k) == k \in DOMAIN m

\* strconv.Atoi / ParseFloat with the error dropped: 0 when nothing parses
NumOrZero(v) == IF Len(v) >= 1 THEN v[1] ELSE 0
IntOrZero(n) == IF n = -1 THEN 0 ELSE n

\* TSCNConverter.extractVector2
extractVector2(line) ==
  IF Len(line.vec) = 2 THEN Vec(line.vec[1], line.vec[2]) ELSE Vec(0, 0)

RECURSIVE PairUp(_, _)
PairUp(flat, i) ==
  IF i + 1 > Len(flat) THEN <<>>
  ELSE <<Vec(flat[i], flat[i + 1])>> \o PairUp(flat, i + 2)

\* TSCNConverter.extractPolygonPoints
extractPolygonPoints(line) == PairUp(line.data, 1)

RECURSIVE Flatten(_)
Flatten(points) ==
  IF points = <<>> THEN <<>>
  ELSE <<points[1].X, points[1].Y>> \o Flatten(Tail(points))

SetMin(S) == CHOOSE x \in S : \A y \in S : x <= y
SetMax(S) == CHOOSE x \in S : \A y \in S : x >= y

\* TSCNConverter.calculateTileSizeFromPoints
calculateTileSizeFromPoints(points, tileSize) ==
  IF Len(points) < 4 THEN tileSize
  ELSE LET xs == {points[i].X : i \in 1..Len(points)}
           ys == {points[i].Y : i \in 1..Len(points)}
       IN  [Width |-> SetMax(xs) - SetMin(xs), Height |-> SetMax(ys) - SetMin(ys)]

\* the tile sizes and pixel offsets the configuration calls are tried with
TileSizes == {8, 16}
PixelOffsets == {-17, 0, 8, 40}

\* TSCNConverter.extractSubResourceID: the first id="..." of the line, which a
\* uid="..." attribute also matches
extractSubResourceID(line) ==
  IF line.uid # "" THEN line.uid
  ELSE IF line.ids # <<>> THEN line.ids[1] ELSE ""

\* TSCNConverter.extractShapeType
extractShapeType(line) == IF line.typ \in ShapeTypes THEN line.typ ELSE ""

\* newTSCNConverter
newTSCNConverter ==
  [tileSize            |-> [Width |-> DefaultTile, Height |-> DefaultTile],
   sources             |-> EmptyMap,
   extResources        |-> EmptyMap,
   subResourceTextures |-> EmptyMap,
   tilePhysicsData     |-> EmptyMap,
   decorators          |-> <<>>,
   currentDecorator    |-> <<>>,
   sprites             |-> <<>>,
   currentSprite       |-> <<>>,
   prefabCache         |-> EmptyMap,
   subResourceShapes   |-> EmptyMap]

\* ------------------------------------------------------------ resource tables
\* the ExtResource record parseExtResource builds from a line
ExtResourceOf(line) ==
  [ID   |-> IF line.ids # <<>> THEN Last(line.ids) ELSE "",
   Type |-> line.typ,
   Path |-> line.path,
   UID  |-> line.uid]

StoreExtResourceWrong(table, extRes) ==
  IF extRes.ID # "" /\ ~Has(table, extRes.ID) THEN Put(table, extRes.ID, extRes) ELSE table

\* if extRes.ID != "" { c.extResources[extRes.ID] = extRes }
StoreExtResource(table, extRes) ==
  IF extRes.ID # "" THEN Put(table, extRes.ID, extRes) ELSE table

\* TSCNConverter.parseExtResource
parseExtResource(cv, line) ==
  [cv EXCEPT !.extResources = StoreExtResource(cv.extResources, ExtResourceOf(line))]

ResolveTexturePathWrong(cv, subResourceID) ==
  IF DOMAIN cv.extResources # {}
  THEN cv.extResources[CHOOSE e \in DOMAIN cv.extResources : TRUE].Path
  ELSE Unknown

\* the texture path a sources/ line resolves through sub-resource and
\* external resource tables
ResolveTexturePath(cv, subResourceID) ==
  IF subResourceID # "" /\ Has(cv.subResourceTextures, subResourceID)
     /\ Has(cv.extResources, cv.subResourceTextures[subResourceID])
  THEN cv.extResources[cv.subResourceTextures[subResourceID]].Path
  ELSE Unknown

\* a sources/ line that keeps the entry an earlier line stored for the id
StoreSourceWrong(sources, source) ==
  IF Has(sources, source.ID) THEN sources ELSE Put(sources, source.ID, source)

\* c.sources[sourceID] = &TileSource{...}
StoreSource(sources, source) == Put(sources, source.ID, source)

\* the TileSource a sources/ line builds
TileSourceOf(cv, sourceID, subResourceID) ==
  [ID          |-> sourceID,
   TexturePath |-> ResolveTexturePath(cv, subResourceID),
   Tiles       |-> <<[AtlasCoords |-> Vec(0, 0),
                      Physics |-> IF subResourceID # "" /\ Has(cv.tilePhysicsData, subResourceID)
                                  THEN cv.tilePhysicsData[subResourceID] ELSE <<>>]>>]

\* TSCNConverter.parseSubResource
parseSubResource(cv, line, resourceID) ==
  CASE line.key = "texture" ->
         IF line.ref # "" /\ resourceID # ""
         THEN [cv EXCEPT !.subResourceTextures = Put(@, resourceID, line.ref)]
         ELSE cv
    [] line.key = "size" ->
         IF Has(cv.subResourceShapes, resourceID)
         THEN [cv EXCEPT !.subResourceShapes[resourceID].Dimensions = extractVector2(line)]
         ELSE cv
    [] line.key = "radius" ->
         IF Has(cv.subResourceShapes, resourceID)
         THEN [cv EXCEPT !.subResourceShapes[resourceID].Dimensions = Vec(NumOrZero(line.vec), 0)]
         ELSE cv
    [] line.key = "points" ->
         IF Has(cv.subResourceShapes, resourceID)
         THEN [cv EXCEPT !.subResourceShapes[resourceID].Points =
                            @ \o Flatten(extractPolygonPoints(line))]
         ELSE cv
    [] line.key = "physics" ->
         LET points == extractPolygonPoints(line)
         IN  IF Len(points) >= 4
             THEN [cv EXCEPT !.tileSize = calculateTileSizeFromPoints(points, cv.tileSize),
                             !.tilePhysicsData = Put(@, resourceID, points)]
             ELSE cv
    [] line.key = "sources" ->
         IF line.n # -1
         THEN [cv EXCEPT !.sources = StoreSource(@, TileSourceOf(cv, line.n, line.ref))]
         ELSE cv
    [] OTHER -> cv

\* ------------------------------------------------------------ nodes
ZeroDecorator ==
  [Name |-> "", Parent |-> "", Position |-> Vec(0, 0), Path |-> <<>>, ZIndex |-> 0,
   Scale |-> Vec(0, 0), Ratation |-> 0, Pivot |-> Vec(0, 0), ColliderType |-> "",
   ColliderPivot |-> Vec(0, 0), ColliderParams |-> <<>>]

\* TSCNConverter.parseDecoratorNode
parseDecoratorNode(line) ==
  [ZeroDecorator EXCEPT !.Path = Unknown, !.Name = line.name, !.Parent = line.parent]

\* TSCNConverter.parseDecoratorProperty
parseDecoratorProperty(cv, line) ==
  IF cv.currentDecorator = <<>> THEN cv
  ELSE CASE line.key = "position" ->
              [cv EXCEPT !.currentDecorator[1].Position =
                 Vec(extractVector2(line).X, -extractVector2(line).Y)]
         [] line.key = "texture" ->
              IF Has(cv.extResources, line.ref)
              THEN [cv EXCEPT !.currentDecorator[1].Path = cv.extResources[line.ref].Path]
              ELSE cv
         [] line.key = "z_index" ->
              [cv EXCEPT !.currentDecorator[1].ZIndex = NumOrZero(line.vec)]
         [] OTHER -> cv

\* a resolution that also sees the declarations on the lines not yet scanned
InstancePathWrong(cv, ref) ==
  LET decls == {k \in DOMAIN doc : /\ doc[k].hdr /\ "ext_resource" \in doc[k].marks
                                    /\ ExtResourceOf(doc[k]).ID = ref /\ ref # ""}
  IN  IF decls = {} THEN Unknown ELSE doc[SetMax(decls)].path

\* "Extract instance ExtResource and resolve path"
InstancePath(cv, ref) ==
  IF ref # "" /\ Has(cv.extResources, ref) THEN cv.extResources[ref].Path ELSE Unknown

\* TSCNConverter.parseSpriteNode
parseSpriteNode(cv, line) ==
  [Name       |-> line.name,
   Parent     |-> line.parent,
   Position   |-> Vec(0, 0),
   Path       |-> InstancePath(cv, line.ref),
   Scale      |-> Vec(1, 1),
   Ratation   |-> 0,
   Properties |-> EmptyMap]

\* a position flipped as a decorator's is, the offset left out
OffsetPositionWrong(position) == Vec(position.X, -position.Y)

\* position.X += tilemapOffset.X; position.Y += tilemapOffset.Y;
\* position.Y = -position.Y
OffsetPosition(position) ==
  Vec(position.X + tilemapOffset.X, -(position.Y + tilemapOffset.Y))

\* TSCNConverter.parseSpriteProperty
parseSpriteProperty(cv, line) ==
  IF cv.currentSprite = <<>> THEN cv
  ELSE CASE line.key = "position" ->
              [cv EXCEPT !.currentSprite[1].Position = OffsetPosition(extractVector2(line))]
         [] line.key = "scale" ->
              [cv EXCEPT !.currentSprite[1].Scale = extractVector2(line)]
         [] line.key = "rotation" ->
              [cv EXCEPT !.currentSprite[1].Ratation = NumOrZero(line.vec)]
         [] line.key = "gid" ->
              [cv EXCEPT !.currentSprite[1].Properties = Put(@, "gid", NumOrZero(line.vec))]
         [] line.key = "generic" ->
              [cv EXCEPT !.currentSprite[1].Properties = Put(@, line.prop, line.val)]
         [] OTHER -> cv

\* "Finish current nodes if we were processing any": the two ifs that open the
\* Sprite2D, instance and other branches of the header dispatch
FinishNodes(cv, section) ==
  [cv EXCEPT !.decorators = IF section = "decorator" /\ cv.currentDecorator # <<>>
                            THEN Append(@, cv.currentDecorator[1]) ELSE @,
             !.currentDecorator = IF section = "decorator" THEN <<>> ELSE @,
             !.sprites = IF section = "sprite" /\ cv.currentSprite # <<>>
                         THEN Append(@, cv.currentSprite[1]) ELSE @,
             !.currentSprite = IF section = "sprite" THEN <<>> ELSE @]

\* "Handle any remaining Decorator / Sprite node" after the scan loop
FinishRemaining(cv) ==
  [cv EXCEPT !.decorators = IF cv.currentDecorator # <<>>
                            THEN Append(@, cv.currentDecorator[1]) ELSE @,
             !.sprites = IF cv.currentSprite # <<>>
                         THEN Append(@, cv.currentSprite[1]) ELSE @]

HeaderSectionWrong(line) ==
  CASE "instance" \in line.marks     -> "sprite"
    [] "Sprite2D" \in line.marks     -> "decorator"
    [] "TileMap" \in line.marks      -> "tilemap"
    [] "sub_resource" \in line.marks -> "sub_resource"
    [] "ext_resource" \in line.marks -> "ext_resource"
    [] OTHER                         -> "other"

\* the branch of the header dispatch a header takes: the first test that matches
HeaderSection(line) ==
  CASE "ext_resource" \in line.marks -> "ext_resource"
    [] "sub_resource" \in line.marks -> "sub_resource"
    [] "TileMap" \in line.marks      -> "tilemap"
    [] "Sprite2D" \in line.marks     -> "decorator"
    [] "instance" \in line.marks     -> "sprite"
    [] OTHER                         -> "other"

RECURSIVE GroupsOf5(_, _)
GroupsOf5(d, i) ==
  IF i + 4 >= Len(d) THEN <<>>
  ELSE <<[TileCoords |-> Vec(Value(d[i + 2]), Value(d[i + 3])), SourceID |-> Value(d[i + 1]),
          AtlasCoords |-> Vec(Value(d[i + 4]), Value(d[i + 5]))]>> \o GroupsOf5(d, i + 5)

\* fmt.Sprintf("layer_%d", layerID)
LayerLabel(n) == IF n = 0 THEN "layer_0" ELSE IF n = 1 THEN "layer_1" ELSE "layer_n"

\* TSCNConverter.parseTileData on extractLayerID and extractTileData of a line
parseTileData(line) ==
  [ID |-> IntOrZero(line.n), Name |-> LayerLabel(IntOrZero(line.n)),
   Tiles |-> GroupsOf5(line.data, 0)]

\* ------------------------------------------------------------ prefabs
TrimPrefix(p, tok) == IF p # <<>> /\ p[1] = tok THEN Tail(p) ELSE p

\* resolvePrefabPath: <<>> is the empty string
resolvePrefabPath(resPath) ==
  IF prefabsDirectory = "" THEN <<>>
  ELSE <<prefabsDirectory>> \o TrimPrefix(TrimPrefix(resPath, "res://"), "scenes/")

\* Vec2.Sub
Vec2Sub(a, b) == Vec(a.X - b.X, a.Y - b.Y)

NewPrefabInfo ==
  [Name |-> "", Pivot |-> Vec(0, 0), ZIndex |-> 0, Scale |-> Vec(1, 1), Rotation |-> 0,
   ColliderType |-> "", ColliderPivot |-> Vec(0, 0), ColliderParams |-> <<>>,
   Texture |-> <<>>, ColliderParent |-> ""]

\* the locals of parsePrefabFile before its scan loop
PrefabScanStart ==
  [info |-> NewPrefabInfo, ext |-> EmptyMap, shapes |-> EmptyMap,
   currentSection |-> "", currentSubResource |-> "", inSprite2D |-> FALSE]

\* the collider a "shape = SubResource(..)" line selects
ColliderOfShape(info, shapeInfo) ==
  CASE shapeInfo.Type = "RectangleShape2D" ->
         [info EXCEPT !.ColliderType = "rect",
                      !.ColliderParams = <<shapeInfo.Dimensions.X, shapeInfo.Dimensions.Y>>]
    [] shapeInfo.Type = "CircleShape2D" ->
         [info EXCEPT !.ColliderType = "circle",
                      !.ColliderParams = <<shapeInfo.Dimensions.X>>]
    [] shapeInfo.Type = "CapsuleShape2D" ->
         [info EXCEPT !.ColliderType = "capsule"]
    [] shapeInfo.Type \in {"ConvexPolygonShape2D", "ConcavePolygonShape2D"} ->
         [info EXCEPT !.ColliderType = "polygon", !.ColliderParams = shapeInfo.Points]
    [] OTHER -> [info EXCEPT !.ColliderType = "auto"]

\* "Parse sub_resource properties" of parsePrefabFile's loop
PrefabShapeProperty(st, line) ==
  IF st.currentSection = "sub_resource" /\ st.currentSubResource # ""
     /\ Has(st.shapes, st.currentSubResource)
  THEN CASE line.key = "size" ->
              [st EXCEPT !.shapes[st.currentSubResource].Dimensions = extractVector2(line)]
         [] line.key = "radius" ->
              [st EXCEPT !.shapes[st.currentSubResource].Dimensions =
                            Vec(NumOrZero(line.vec), 0)]
         [] line.key = "points" ->
              [st EXCEPT !.shapes[st.currentSubResource].Points =
                            @ \o Flatten(extractPolygonPoints(line))]
         [] OTHER -> st
  ELSE st

\* "Parse Sprite2D properties" of parsePrefabFile's loop
PrefabSpriteProperty(st, line) ==
  IF st.inSprite2D /\ st.currentSection = "sprite2d"
  THEN CASE line.key = "position" -> [st EXCEPT !.info.Pivot = extractVector2(line)]
         [] line.key = "scale"    -> [st EXCEPT !.info.Scale = extractVector2(line)]
         [] line.key = "rotation" -> [st EXCEPT !.info.Rotation = NumOrZero(line.vec)]
         [] line.key = "z_index"  -> [st EXCEPT !.info.ZIndex = NumOrZero(line.vec)]
         [] line.key = "texture"  ->
              IF Has(st.ext, line.ref)
              THEN [st EXCEPT !.info.Texture = st.ext[line.ref].Path]
              ELSE st
         [] OTHER -> st
  ELSE st

\* "Parse collision properties" of parsePrefabFile's loop
PrefabCollisionProperty(st, line) ==
  IF st.currentSection = "collision"
  THEN CASE line.key = "position" ->
              [st EXCEPT !.info.ColliderPivot = extractVector2(line)]
         [] line.key = "polygon" ->
              [st EXCEPT !.info.ColliderParams = @ \o Flatten(extractPolygonPoints(line))]
         [] line.key = "shape" ->
              IF Has(st.shapes, line.ref)
              THEN [st EXCEPT !.info = ColliderOfShape(@, st.shapes[line.ref])]
              ELSE st
         [] OTHER -> st
  ELSE st

\* the property part of one iteration of parsePrefabFile's loop
PrefabProperty(st, line) ==
  PrefabCollisionProperty(PrefabSpriteProperty(PrefabShapeProperty(st, line), line), line)

\* "Detect root node (first node declaration)"
PrefabRootName(st, line) ==
  IF "node" \in line.marks /\ st.info.Name = ""
  THEN [st EXCEPT !.info.Name = line.name] ELSE st

\* the node part of one iteration, the root name taken
PrefabNodeStep(st, line) ==
  IF "Sprite2D" \in line.marks
  THEN [st EXCEPT !.inSprite2D = TRUE, !.currentSection = "sprite2d"]
  ELSE IF "CollisionShape2D" \in line.marks \/ "CollisionPolygon2D" \in line.marks
  THEN [st EXCEPT !.inSprite2D = FALSE, !.currentSection = "collision",
                  !.info.ColliderType = "auto",
                  !.info.ColliderParent = IF line.parent # "" THEN line.parent ELSE @]
  ELSE IF "node" \in line.marks
  THEN PrefabProperty([st EXCEPT !.inSprite2D = FALSE, !.currentSection = ""], line)
  ELSE PrefabProperty(st, line)

\* one iteration of parsePrefabFile's scan loop
PrefabStep(st, line) ==
  IF line.key = "comment" THEN st
  ELSE IF "ext_resource" \in line.marks
  THEN [st EXCEPT !.currentSection = "ext_resource",
                  !.ext = StoreExtResource(@, [ExtResourceOf(line) EXCEPT !.UID = ""])]
  ELSE IF "sub_resource" \in line.marks
  THEN [st EXCEPT !.currentSection = "sub_resource",
                  !.currentSubResource = extractSubResourceID(line),
                  !.shapes = IF extractShapeType(line) # ""
                             THEN Put(@, extractSubResourceID(line),
                                      [Type |-> extractShapeType(line),
                                       Dimensions |-> Vec(0, 0), Points |-> <<>>])
                             ELSE @]
  ELSE PrefabNodeStep(PrefabRootName(st, line), line)

RECURSIVE PrefabScan(_, _, _)
PrefabScan(st, lines, i) ==
  IF i > Len(lines) THEN st ELSE PrefabScan(PrefabStep(st, lines[i]), lines, i + 1)

\* the file system's answer for a resolved path
Readable(filePath) == Has(fs, filePath) /\ fs[filePath] # <<>>

\* "if info.ColliderParent == "." { info.ColliderPivot.Sub(info.Pivot) }"
RelativeCollider(info) ==
  IF info.ColliderParent = "."
  THEN [info EXCEPT !.ColliderPivot = Vec2Sub(@, info.Pivot)]
  ELSE info

\* TSCNConverter.parsePrefabFile on a readable file: the PrefabInfo it returns
parsePrefabFile(filePath) ==
  RelativeCollider(PrefabScan(PrefabScanStart, fs[filePath][1], 1).info)

CacheStoreWrong(cache, resPath, info) == cache

\* c.prefabCache[resPath] = info
CacheStore(cache, resPath, info) == Put(cache, resPath, info)

Count(calls, k) == IF Has(calls, k) THEN calls[k] ELSE 0

\* what getPrefabInfo returns: whether the error is nil, the info, the cache
\* it leaves and the parsePrefabFile calls counted so far
Got(ok, info, cache, calls) == [ok |-> ok, info |-> info, cache |-> cache, calls |-> calls]

\* getPrefabInfo from "info, err := c.parsePrefabFile(filePath)" on
ParseAndStore(cache, calls, resPath, filePath) ==
  IF Readable(filePath)
  THEN Got(TRUE, parsePrefabFile(filePath),
           CacheStore(cache, resPath, parsePrefabFile(filePath)), calls)
  ELSE Got(FALSE, NewPrefabInfo, cache, calls)

\* TSCNConverter.getPrefabInfo
getPrefabInfo(cache, calls, resPath) ==
  IF Has(cache, resPath) THEN Got(TRUE, cache[resPath], cache, calls)
  ELSE IF resolvePrefabPath(resPath) = <<>> THEN Got(FALSE, NewPrefabInfo, cache, calls)
  ELSE ParseAndStore(cache, Put(calls, resPath, Count(calls, resPath) + 1), resPath,
                     resolvePrefabPath(resPath))

\* the PrefabNode buildPrefabNodes starts from
PrefabOfSprite(sprite) ==
  [Name |-> sprite.Name, Path |-> sprite.Path, Position |-> sprite.Position,
   Scale |-> sprite.Scale, Ratation |-> sprite.Ratation, Properties |-> sprite.Properties,
   Texture |-> <<>>, Pivot |-> Vec(0, 0), ZIndex |-> 0, ColliderType |-> "",
   ColliderPivot |-> Vec(0, 0), ColliderParams |-> <<>>, ColliderParent |-> ""]

\* the scale the comment above the assignment describes: the product
EnrichedScaleWrong(prefab, prefabInfo) ==
  Vec(prefab.Scale.X * prefabInfo.Scale.X, prefab.Scale.Y * prefabInfo.Scale.Y)

\* prefab.Scale.X = prefabInfo.Scale.X; prefab.Scale.Y = prefabInfo.Scale.Y
EnrichedScale(prefab, prefabInfo) == prefabInfo.Scale

\* the merge of a PrefabInfo into the node
MergePrefabInfo(prefab, prefabInfo) ==
  [prefab EXCEPT !.Name = prefabInfo.Name,
                 !.Texture = prefabInfo.Texture,
                 !.Pivot = prefabInfo.Pivot,
                 !.ZIndex = prefabInfo.ZIndex,
                 !.ColliderType = prefabInfo.ColliderType,
                 !.ColliderPivot = prefabInfo.ColliderPivot,
                 !.ColliderParams = prefabInfo.ColliderParams,
                 !.ColliderParent = prefabInfo.ColliderParent,
                 !.Scale = EnrichedScale(prefab, prefabInfo),
                 !.Ratation = IF prefab.Ratation = 0 THEN prefabInfo.Rotation
                              ELSE prefab.Ratation + prefabInfo.Rotation]

EnrichWrong(prefab, got) == MergePrefabInfo(prefab, got.info)

\* if prefabInfo, err := c.getPrefabInfo(sprite.Path); err == nil { merge }
Enrich(prefab, got) == IF got.ok THEN MergePrefabInfo(prefab, got.info) ELSE prefab

NameTakenWrong(prefabMap, name) == FALSE

\* _, exists := prefabMap[prefab.Name]
NameTaken(prefabMap, name) == name \in prefabMap

\* "if _, exists := prefabMap[prefab.Name]; !exists { append }"
AddPrefab(acc, prefab, got) ==
  [prefabs |-> IF NameTaken(acc.prefabMap, prefab.Name) THEN acc.prefabs
               ELSE Append(acc.prefabs, prefab),
   prefabMap |-> acc.prefabMap \cup {prefab.Name},
   cache |-> got.cache,
   calls |-> got.calls]

EnrichAndAdd(acc, sprite, got) == AddPrefab(acc, Enrich(PrefabOfSprite(sprite), got), got)

\* one iteration of buildPrefabNodes' loop
BuildPrefabStep(acc, sprite) ==
  EnrichAndAdd(acc, sprite, getPrefabInfo(acc.cache, acc.calls, sprite.Path))

RECURSIVE BuildPrefabFrom(_, _, _)
BuildPrefabFrom(acc, sprites, i) ==
  IF i > Len(sprites) THEN acc
  ELSE BuildPrefabFrom(BuildPrefabStep(acc, sprites[i]), sprites, i + 1)

\* TSCNConverter.buildPrefabNodes
buildPrefabNodes(cv, calls) ==
  BuildPrefabFrom([prefabs |-> <<>>, prefabMap |-> {}, cache |-> cv.prefabCache,
                   calls |-> calls],
                  cv.sprites, 1)

\* ------------------------------------------------------------ layer pass
\* the locals of parseLayersFromTSCN before its loop, with the accumulators
LayerScanStart(b) ==
  [layers |-> <<>>, currentLayerID |-> -1, currentLayerName |-> "",
   currentZIndex |-> 0, currentTileData |-> <<>>, bounds |-> b]

NamedLayerOpenWrong(st) == TRUE

\* the && currentLayerID >= 0 of the tile_data test
NamedLayerOpen(st) == st.currentLayerID >= 0

\* the layer a tile_data line appends, and the reset of the locals
EmitLayer(st, conv) ==
  [layers |-> Append(st.layers,
                     [ID |-> st.currentLayerID, Name |-> st.currentLayerName,
                      ZIndex |-> st.currentZIndex, TileData |-> conv.data]),
   currentLayerID |-> -1, currentLayerName |-> "", currentZIndex |-> 0,
   currentTileData |-> <<>>,
   bounds |-> [minX |-> conv.minX, maxX |-> conv.maxX, minY |-> conv.minY,
               maxY |-> conv.maxY, count |-> conv.count]]

\* one iteration of parseLayersFromTSCN's loop
LayerStep(st, line) ==
  CASE line.key = "layer_name" ->
         IF line.n # -1
         THEN [st EXCEPT !.currentLayerID = line.n, !.currentLayerName = line.name]
         ELSE st
    [] line.key = "layer_z" ->
         IF Len(line.vec) >= 1 THEN [st EXCEPT !.currentZIndex = line.vec[1]] ELSE st
    [] line.key = "tile_data" ->
         IF NamedLayerOpen(st)
         THEN EmitLayer(st, ConvertTileDataFormat(st.currentTileData \o line.data, st.bounds))
         ELSE st
    [] OTHER -> st

RECURSIVE LayerScan(_, _, _)
LayerScan(st, lines, i) ==
  IF i > Len(lines) THEN st ELSE LayerScan(LayerStep(st, lines[i]), lines, i + 1)

\* parseLayersFromTSCN(filename) on a readable file
parseLayersFromTSCN(lines, b) == LayerScan(LayerScanStart(b), lines, 1)

\* ------------------------------------------------------------ output assembly
RECURSIVE InsertByID(_, _)
InsertByID(sorted, src) ==
  IF sorted = <<>> THEN <<src>>
  ELSE IF src.ID < sorted[1].ID THEN <<src>> \o sorted
  ELSE <<sorted[1]>> \o InsertByID(Tail(sorted), src)

RECURSIVE SortByID(_)
SortByIDWrong(srcs) == srcs

\* sort.Slice(tilesetSources, func(i, j) { return s[i].ID < s[j].ID })
SortByID(srcs) ==
  IF srcs = <<>> THEN <<>> ELSE InsertByID(SortByID(Tail(srcs)), srcs[1])

\* the orders in which "for _, source := range c.sources" may visit the map
RangeOrders(m) ==
  {o \in [1..Cardinality(DOMAIN m) -> DOMAIN m] :
     \A i, j \in DOMAIN o : i # j => o[i] # o[j]}

\* the MapData convertTSCNToTileMap returns
OutputTileSizeWrong(cv) == cv.tileSize

\* TileSize: tilemapTileSize
OutputTileSize(cv) == tilemapTileSize

MapDataOf(cv, order, fmt, lys, prefabs) ==
  [TileMap |-> [Format   |-> fmt,
                TileSize |-> OutputTileSize(cv),
                TileSet  |-> [Sources |-> SortByID([i \in DOMAIN order |-> cv.sources[order[i]]])],
                Layers   |-> lys,
                WorldTileSize |-> [Width |-> 0, Height |-> 0]],
   Decorators |-> cv.decorators,
   Sprites    |-> cv.sprites,
   Prefabs    |-> prefabs]

OddSizeWrong(diffX, diffY) == diffX % 2 # 0 /\ diffY % 2 # 0

\* diffX%2 != 0 || diffY%2 != 0 (Go's % keeps the dividend's sign: -1 for a
\* negative odd number, which is != 0 as well)
OddSize(diffX, diffY) == diffX % 2 # 0 \/ diffY % 2 # 0

\* ------------------------------------------------------------ actions
io      == <<inputFile, file, doc, fs>>
config  == <<tilemapTileSize, tilemapOffset, prefabsDirectory>>
globals == <<minTileX, maxTileX, minTileY, maxTileY, tileTotalCount>>
locals  == <<currentSection, currentSubResource, format, layers>>
result  == <<data, err>>
direct  == <<tileData, newData>>
second  == <<pc2, doc2, result2>>
cli     == <<jsonStr, replacementsFile, replacements, replaced>>

IsEmptyPathWrong(path) == FALSE

\* if inputFile == ""
IsEmptyPath(path) == path = ""

\* Parse(inputFile)
Parse ==
  /\ pc = "start"
  /\ IF IsEmptyPath(inputFile)
     THEN /\ data' = <<>>
          /\ err' = "input file is empty"
          /\ pc' = "done"
          /\ c' = c
     ELSE /\ c' = newTSCNConverter
          /\ pc' = "open"
          /\ UNCHANGED result
  /\ UNCHANGED <<io, second, cli, idx, locals, globals, config, parseCalls, direct>>

SentinelBoundsWrong == [minX |-> 0, maxX |-> 0, minY |-> 0, maxY |-> 0]

\* minTileX = 1000000; maxTileX = -1000000; minTileY = 1000000; maxTileY = -1000000
SentinelBounds ==
  [minX |-> BoundsSentinel, maxX |-> -BoundsSentinel,
   minY |-> BoundsSentinel, maxY |-> -BoundsSentinel]

\* a parse that leaves the accumulators as the parse before it left them
ResetBoundsWrong(b) == b

\* the four assignments that open convertTSCNToTileMap's scan, on the
\* accumulators b of whatever parse ran before
ResetBounds(b) == SentinelBounds

\* convertTSCNToTileMap up to its scan loop: os.Open, the locals, the reset of
\* the accumulators
Open ==
  /\ pc = "open"
  /\ IF file = "noent"
     THEN /\ data' = <<>>
          /\ err' = "failed to open file"
          /\ pc' = "layers"
          /\ UNCHANGED <<locals, minTileX, maxTileX, minTileY, maxTileY>>
     ELSE /\ currentSection' = ""
          /\ currentSubResource' = ""
          /\ format' = 0
          /\ layers' = <<>>
          /\ minTileX' = ResetBounds(Bounds).minX
          /\ maxTileX' = ResetBounds(Bounds).maxX
          /\ minTileY' = ResetBounds(Bounds).minY
          /\ maxTileY' = ResetBounds(Bounds).maxY
          /\ pc' = "scan"
          /\ UNCHANGED result
  /\ UNCHANGED <<io, second, cli, idx, c, tileTotalCount, config, parseCalls, direct>>

Scanning == pc = "scan" /\ idx <= Len(doc)
Line == doc[idx]
IsHeader(section) == Scanning /\ Line.hdr /\ HeaderSection(Line) = section
IsContent(sections) ==
  Scanning /\ ~Line.hdr /\ Line.key # "comment" /\ currentSection \in sections
Scanned == /\ idx' = idx + 1
           /\ pc' = pc
           /\ UNCHANGED <<io, second, cli, globals, config, parseCalls, result, direct>>

\* an empty line or a comment: continue
ScanComment ==
  /\ Scanning /\ ~Line.hdr /\ Line.key = "comment"
  /\ Scanned
  /\ UNCHANGED <<c, locals>>

ScanExtResourceHeader ==
  /\ IsHeader("ext_resource")
  /\ currentSection' = "ext_resource"
  /\ c' = parseExtResource(c, Line)
  /\ Scanned
  /\ UNCHANGED <<currentSubResource, format, layers>>

ScanSubResourceHeader ==
  /\ IsHeader("sub_resource")
  /\ currentSection' = "sub_resource"
  /\ currentSubResource' = extractSubResourceID(Line)
  /\ c' = IF extractShapeType(Line) # ""
          THEN [c EXCEPT !.subResourceShapes =
                  Put(@, extractSubResourceID(Line),
                      [Type |-> extractShapeType(Line), Dimensions |-> Vec(0, 0),
                       Points |-> <<>>])]
          ELSE c
  /\ Scanned
  /\ UNCHANGED <<format, layers>>

ScanTileMapHeader ==
  /\ IsHeader("tilemap")
  /\ currentSection' = "tilemap"
  /\ Scanned
  /\ UNCHANGED <<c, currentSubResource, format, layers>>

ScanSprite2DHeader ==
  /\ IsHeader("decorator")
  /\ c' = [FinishNodes(c, currentSection) EXCEPT
             !.currentDecorator = <<parseDecoratorNode(Line)>>]
  /\ currentSection' = "decorator"
  /\ Scanned
  /\ UNCHANGED <<currentSubResource, format, layers>>

ScanInstanceHeader ==
  /\ IsHeader("sprite")
  /\ c' = [FinishNodes(c, currentSection) EXCEPT
             !.currentSprite = <<parseSpriteNode(c, Line)>>]
  /\ currentSection' = "sprite"
  /\ Scanned
  /\ UNCHANGED <<currentSubResource, format, layers>>

ScanOtherHeader ==
  /\ IsHeader("other")
  /\ c' = FinishNodes(c, currentSection)
  /\ currentSection' = "other"
  /\ Scanned
  /\ UNCHANGED <<currentSubResource, format, layers>>

\* case "ext_resource": c.parseExtResource(line)
ScanExtResourceLine ==
  /\ IsContent({"ext_resource"})
  /\ c' = parseExtResource(c, Line)
  /\ Scanned
  /\ UNCHANGED locals

\* case "sub_resource": c.parseSubResource(line, currentSubResource)
ScanSubResourceLine ==
  /\ IsContent({"sub_resource"})
  /\ c' = parseSubResource(c, Line, currentSubResource)
  /\ Scanned
  /\ UNCHANGED locals

\* case "decorator": c.parseDecoratorProperty(line)
ScanDecoratorLine ==
  /\ IsContent({"decorator"})
  /\ c' = parseDecoratorProperty(c, Line)
  /\ Scanned
  /\ UNCHANGED locals

\* case "sprite": c.parseSpriteProperty(line)
ScanSpriteLine ==
  /\ IsContent({"sprite"})
  /\ c' = parseSpriteProperty(c, Line)
  /\ Scanned
  /\ UNCHANGED locals

\* case "tilemap"
ScanTilemapLine ==
  /\ IsContent({"tilemap"})
  /\ format' = IF Line.key = "format" THEN NumOrZero(Line.vec) ELSE format
  /\ layers' = IF Line.key = "tile_data" THEN Append(layers, parseTileData(Line))
               ELSE layers
  /\ Scanned
  /\ UNCHANGED <<c, currentSection, currentSubResource>>

\* no case of the switch: before the first header, or after an other header
ScanUnsectionedLine ==
  /\ IsContent({"", "other"})
  /\ Scanned
  /\ UNCHANGED <<c, locals>>

\* convertTSCNToTileMap after its scan loop
Finish ==
  /\ pc = "scan" /\ idx > Len(doc)
  /\ LET cv    == FinishRemaining(c)
         built == buildPrefabNodes(cv, parseCalls)
     IN  IF file = "scanerr"
         THEN /\ c' = cv
              /\ data' = <<>>
              /\ err' = "error reading file"
              /\ parseCalls' = parseCalls
         ELSE \E order \in RangeOrders(cv.sources) :
                /\ c' = [cv EXCEPT !.prefabCache = built.cache]
                /\ parseCalls' = built.calls
                /\ data' = <<MapDataOf(cv, order, format, layers, built.prefabs)>>
                /\ err' = ""
  /\ pc' = "layers"
  /\ UNCHANGED <<io, second, cli, idx, locals, globals, config, direct>>

\* data.TileMap.Layers, _ = parseLayersFromTSCN(filename)
ParseLayers ==
  /\ pc = "layers"
  /\ IF data = <<>>
     THEN /\ pc' = "panic"
          /\ UNCHANGED <<data, globals>>
     ELSE LET st == parseLayersFromTSCN(doc, Bounds)
          IN  /\ data' = <<[data[1] EXCEPT !.TileMap.Layers = st.layers]>>
              /\ minTileX' = st.bounds.minX
              /\ maxTileX' = st.bounds.maxX
              /\ minTileY' = st.bounds.minY
              /\ maxTileY' = st.bounds.maxY
              /\ tileTotalCount' = st.bounds.count
              /\ pc' = "validate"
  /\ UNCHANGED <<io, second, cli, idx, c, locals, config, parseCalls, err, direct>>

\* the even-dimension check that ends ConvertTSCNToTileMap
Validate ==
  /\ pc = "validate"
  /\ LET diffX == maxTileX - minTileX + 1
         diffY == maxTileY - minTileY + 1
     IN  IF OddSize(diffX, diffY)
         THEN /\ err' = "odd"
              /\ data' = data
         ELSE /\ data' = <<[data[1] EXCEPT !.TileMap.WorldTileSize =
                                             [Width |-> diffX, Height |-> diffY]]>>
              /\ err' = err
  /\ pc' = "done"
  /\ UNCHANGED <<io, second, cli, idx, c, locals, globals, config, parseCalls, direct>>

\* a direct call convertTileDataFormat(tileData)
Convert ==
  /\ pc = "codec"
  /\ LET conv == ConvertTileDataFormat(tileData, Bounds)
     IN  /\ newData' = conv.data
         /\ minTileX' = conv.minX
         /\ maxTileX' = conv.maxX
         /\ minTileY' = conv.minY
         /\ maxTileY' = conv.maxY
         /\ tileTotalCount' = conv.count
  /\ pc' = "converted"
  /\ UNCHANGED <<io, second, cli, idx, c, locals, config, parseCalls, result, tileData>>

\* SetTileSize(size), before the call
SetTileSize ==
  /\ pc \in {"start", "codec"}
  /\ \E size \in TileSizes : tilemapTileSize' = [Width |-> size, Height |-> size]
  /\ UNCHANGED <<io, second, cli, pc, idx, c, locals, globals, tilemapOffset,
                 prefabsDirectory, parseCalls, result, direct>>

\* SetOffset(x, y), before the call
SetOffset ==
  /\ pc \in {"start", "codec"}
  /\ \E x \in PixelOffsets, y \in PixelOffsets : tilemapOffset' = Vec(x, y)
  /\ UNCHANGED <<io, second, cli, pc, idx, c, locals, globals, tilemapTileSize,
                 prefabsDirectory, parseCalls, result, direct>>

\* ------------------------------------------------------------ ConvertToTilemap
MatchingWrong(prefabs, path) == DOMAIN prefabs

\* the prefabs that prefabMap holds under the key path: "if prefab.Path != """
\* when the map is filled, "prefabMap[sprite.Path]" when it is read
Matching(prefabs, path) ==
  {k \in DOMAIN prefabs : prefabs[k].Path # <<>> /\ prefabs[k].Path = path}

\* Vec2.InvertY
InvertY(v) == Vec(v.X, -v.Y)

\* the DecoratorNode literal built from a sprite
DecoratorOfSprite(sprite) ==
  [ZeroDecorator EXCEPT !.Name = sprite.Name, !.Parent = sprite.Parent,
                        !.Path = sprite.Path, !.Position = sprite.Position,
                        !.Scale = sprite.Scale, !.Ratation = sprite.Ratation]

\* the body of "if prefab, exists := prefabMap[sprite.Path]; exists"
MergePrefab(decorator, prefab) ==
  [decorator EXCEPT !.Name = IF prefab.Name # "" THEN prefab.Name ELSE @,
                    !.Path = prefab.Texture,
                    !.Pivot = prefab.Pivot,
                    !.ZIndex = prefab.ZIndex,
                    !.ColliderType = prefab.ColliderType,
                    !.ColliderPivot = prefab.ColliderPivot,
                    !.ColliderParams = prefab.ColliderParams,
                    !.Scale = Vec(@.X * prefab.Scale.X, @.Y * prefab.Scale.Y)]

\* the decorator of one sprite: a later prefab of the same path overwrites an
\* earlier one in prefabMap
MergedDecorator(prefabs, sprite) ==
  IF Matching(prefabs, sprite.Path) = {} THEN DecoratorOfSprite(sprite)
  ELSE MergePrefab(DecoratorOfSprite(sprite), prefabs[SetMax(Matching(prefabs, sprite.Path))])

\* gid, ok := sprite.Properties["gid"].(int); ok && gid != 0
HasGid(sprite) == Has(sprite.Properties, "gid") /\ sprite.Properties["gid"] # 0

\* the loop over data.Sprites
RECURSIVE AppendSprites(_, _, _, _)
AppendSprites(decorators, prefabs, sprites, i) ==
  IF i > Len(sprites) THEN decorators
  ELSE AppendSprites(IF HasGid(sprites[i]) THEN decorators
                     ELSE Append(decorators, MergedDecorator(prefabs, sprites[i])),
                     prefabs, sprites, i + 1)

\* a closing loop that clears the parent and leaves the collider pivot
EmittedWrong(decorators) ==
  [i \in DOMAIN decorators |-> [decorators[i] EXCEPT !.Parent = ""]]

\* the closing loop over data.Decorators
Emitted(decorators) ==
  [i \in DOMAIN decorators |->
     [decorators[i] EXCEPT !.ColliderPivot = InvertY(@), !.Parent = ""]]

\* ConvertToTilemap(data), on what Parse returned
ConvertToTilemap ==
  /\ pc = "done"
  /\ data' = IF data = <<>> THEN data
             ELSE <<[data[1] EXCEPT !.Decorators =
                       Emitted(AppendSprites(@, data[1].Prefabs, data[1].Sprites, 1))]>>
  /\ pc' = "merged"
  /\ UNCHANGED <<io, second, cli, idx, c, locals, globals, config, parseCalls, err, direct>>

\* ------------------------------------------------------------ replacements
\* whether text has old at 1-based position i
MatchesAt(text, old, i) ==
  i + Len(old) - 1 <= Len(text) /\ SubSeq(text, i, i + Len(old) - 1) = old

\* strings.ReplaceAll(text, old, new) for a non-empty old: the non-overlapping
\* occurrences of old, found left to right, each replaced by new
RECURSIVE ReplaceFrom(_, _, _, _)
ReplaceFrom(text, old, new, i) ==
  IF i > Len(text) THEN <<>>
  ELSE IF MatchesAt(text, old, i)
       THEN new \o ReplaceFrom(text, old, new, i + Len(old))
       ELSE <<text[i]>> \o ReplaceFrom(text, old, new, i + 1)
ReplaceAll(text, old, new) == ReplaceFrom(text, old, new, 1)

RuleInputWrong(current, text) == text

\* result = strings.ReplaceAll(result, ...): a rule reads what the rules
\* before it left, not the text the function was given
RuleInput(current, text) == current

\* the body of the loop over config.Replacements
ApplyRule(current, text, replacement) ==
  IF replacement.Old # <<>>
  THEN ReplaceAll(RuleInput(current, text), replacement.Old, replacement.New)
  ELSE current

RECURSIVE ApplyRules(_, _, _, _)
ApplyRules(current, text, rules, i) ==
  IF i > Len(rules) THEN current
  ELSE ApplyRules(ApplyRule(current, text, rules[i]), text, rules, i + 1)

\* applyReplacementsFromFile(jsonStr, replacementsFile)
ApplyReplacementsFromFile ==
  /\ pc = "replace"
  /\ replaced' = IF replacementsFile = "ok"
                 THEN ApplyRules(jsonStr, jsonStr, replacements, 1)
                 ELSE jsonStr
  /\ pc' = "replaced"
  /\ UNCHANGED <<io, second, idx, c, locals, globals, config, parseCalls, result, direct,
                 jsonStr, replacementsFile, replacements>>

\* ------------------------------------------------------------ a second call
\* A second Parse call on doc2, running in the same process as the first and
\* followed at the steps where it reads or writes the package globals.
AccumulatorsOfWrong(call) ==
  IF call = 2
  THEN [minX |-> BoundsSentinel, maxX |-> -BoundsSentinel, minY |-> BoundsSentinel,
        maxY |-> -BoundsSentinel, count |-> 0]
  ELSE Bounds

\* minTileX, maxTileX, minTileY, maxTileY, tileTotalCount are package-level
\* variables: every call, on whatever converter, uses the same ones
AccumulatorsOf(call) == Bounds

\* the second call's convertTSCNToTileMap: the reset of the accumulators
Open2 ==
  /\ pc2 = "open"
  /\ minTileX' = ResetBounds(Bounds).minX
  /\ maxTileX' = ResetBounds(Bounds).maxX
  /\ minTileY' = ResetBounds(Bounds).minY
  /\ maxTileY' = ResetBounds(Bounds).maxY
  /\ pc2' = "layers"
  /\ UNCHANGED <<io, cli, pc, idx, c, locals, tileTotalCount, config, parseCalls, result,
                 direct, doc2, result2>>

\* a further Parse(inputFile) once the first has returned its MapData
ParseAgain ==
  /\ pc = "done" /\ data # <<>>
  /\ pc2 = "off"
  /\ pc2' = "open"
  /\ UNCHANGED <<io, cli, pc, idx, c, locals, globals, config, parseCalls, result,
                 direct, doc2, result2>>

\* the second call's data.TileMap.Layers, _ = parseLayersFromTSCN(filename)
ParseLayers2 ==
  /\ pc2 = "layers"
  /\ LET st == parseLayersFromTSCN(doc2, AccumulatorsOf(2))
     IN  /\ minTileX' = st.bounds.minX
         /\ maxTileX' = st.bounds.maxX
         /\ minTileY' = st.bounds.minY
         /\ maxTileY' = st.bounds.maxY
         /\ tileTotalCount' = st.bounds.count
  /\ pc2' = "validate"
  /\ UNCHANGED <<io, cli, pc, idx, c, locals, config, parseCalls, result, direct, doc2, result2>>

\* the verdict of the even-dimension check on the accumulators as they are
VerdictOf(b) ==
  IF OddSize(b.maxX - b.minX + 1, b.maxY - b.minY + 1)
  THEN <<"odd", [Width |-> 0, Height |-> 0]>>
  ELSE <<"", [Width |-> b.maxX - b.minX + 1, Height |-> b.maxY - b.minY + 1]>>

\* the second call's even-dimension check
Validate2 ==
  /\ pc2 = "validate"
  /\ result2' = VerdictOf(AccumulatorsOf(2))
  /\ pc2' = "done"
  /\ UNCHANGED <<io, cli, pc, idx, c, locals, globals, config, parseCalls, result, direct, doc2>>

\* ------------------------------------------------------------ inputs
PathA == <<"res://", "scenes/", "a.tscn">>
PathB == <<"res://", "b.tscn">>
PathT == <<"res://", "ground.png">>
PathU == <<"res://", "sky.png">>

\* ((y & 0xFFFF) << 16) | (x & 0xFFFF)
Encode(x, y) == Word(y % Wrap16, x % Wrap16)

Coords == (-CoordBound .. CoordBound)
          \cup {-SignBit16, -SignBit16 + 1, SignBit16 - 2, SignBit16 - 1}
SourceIds == {0, 3}
AtlasWords == {Word(0, 0), Word(1, 2), Word(5, Mask16), Word(Wrap16 + 3, 4), ToWord(-1)}

\* one complete group per coordinate pair, and short arrays of every length
GroupInputs == {<<Encode(x, y), ToWord(s), a>> : x \in Coords, y \in Coords,
                                         s \in SourceIds, a \in AtlasWords}
ArrayInputs == SeqsUpTo({ToWord(0), Encode(1, 0), Encode(-1, 2)}, MaxInts)

\* the packed arrays of the layer family
Zero      == ToWord(0)
OneTile   == <<Encode(0, 0), Zero, Zero>>
Square    == <<Encode(0, 0), Zero, Zero, Encode(1, 1), Zero, Zero>>
Column    == <<Encode(0, 0), Zero, Zero, Encode(0, 1), Zero, Zero>>
LeftTile  == <<Encode(-1, 0), ToWord(1), Word(1, 2)>>
Ragged    == <<Encode(0, 0), Zero, Zero, ToWord(7)>>

NodeLines ==
  {Sprite2DLine("A", ""), Sprite2DLine("B", "P"), InstanceLine("C", "", "e1"),
   ExtResourceLine("PackedScene", "", PathA, <<"e1">>),
   SubResourceLine("TileSet", "s1"), TileMapLine, OtherLine("N"),
   PositionLine(<<1, 2>>), CommentLine}

TilesetLines ==
  {ExtResourceLine("Texture2D", "", PathT, <<"e1">>),
   ExtResourceLine("Texture2D", "", PathU, <<"e1">>),
   ExtResourceLine("Texture2D", "u1", PathU, <<"x", "e2">>),
   ExtResourceLine("Texture2D", "", PathT, <<>>),
   SubResourceLine("TileSetAtlasSource", "s1"),
   TextureLine("e1"),
   SourcesLine(0, "s1"), SourcesLine(1, "s1"), SourcesLine(2, "")}

LayerLines ==
  {TileMapLine, Sprite2DLine("A", ""), LayerNameLine(0, "ground"),
   LayerZLine(<<-3>>), TileDataLine(0, OneTile), TileDataLine(0, Square),
   TileDataLine(1, Column), TileDataLine(0, LeftTile), TileDataLine(0, Ragged)}

PrefabLines ==
  {ExtResourceLine("PackedScene", "", PathA, <<"e1">>),
   ExtResourceLine("PackedScene", "", PathB, <<"e2">>),
   InstanceLine("I1", "", "e1"), InstanceLine("I2", "P", "e1"),
   InstanceLine("I2", "", "e2"), ScaleLine(<<2, 3>>)}

\* two prefab sub-documents
NodeHeader(name, marks) == [Header({"node"} \cup marks) EXCEPT !.name = name]
PrefabDocA == <<NodeHeader("Crate", {}), NodeHeader("Sprite", {"Sprite2D"}),
                ScaleLine(<<3, 3>>), RotationLine(<<5>>)>>
PrefabDocB == <<NodeHeader("I1", {}), NodeHeader("Sprite", {"Sprite2D"}),
                PositionLine(<<4, 4>>)>>

\* the file systems tried: each prefab file missing or present
FileSystems ==
  {(<<"dir", "a.tscn">> :> a) @@ (<<"dir", "b.tscn">> :> b) :
     a \in {<<>>, <<PrefabDocA>>}, b \in {<<>>, <<PrefabDocB>>}}
NoFiles == (<<"dir", "a.tscn">> :> <<>>)

\* the minimal tilemap document and its neighbours
MinimalDocOf(e, path, s, ref, n, named, ints) ==
  <<ExtResourceLine("Texture2D", "", path, <<e>>),
    SubResourceLine("TileSetAtlasSource", s),
    TextureLine(ref),
    SourcesLine(n, s),
    TileMapLine,
    FormatLine(<<2>>)>>
  \o (IF named THEN <<LayerNameLine(0, "ground")>> ELSE <<>>)
  \o <<TileDataLine(0, ints)>>

\* PackedInt32Array(65536, 0, 0)
MinimalTile == <<ToWord(Wrap16), ToWord(0), ToWord(0)>>
MinimalDoc == MinimalDocOf("e1", PathT, "s1", "e1", 0, FALSE, MinimalTile)

MinimalDocs ==
  {MinimalDocOf(e, path, s, ref, n, named, ints) :
     e \in {"e1", "e2"}, path \in {PathT, PathU}, s \in {"s1"}, ref \in {"e1", "e2"},
     n \in {0, 1}, named \in BOOLEAN, ints \in {MinimalTile, Square}}

\* ------------------------------------------------------------ specifications
\* the state before Parse is called: a fresh process, its configuration set
InitCall(docs, files, inputs, dirs, fss) ==
  /\ pc = "start"
  /\ inputFile \in inputs
  /\ file \in files
  /\ doc \in docs
  /\ (inputFile = "" \/ file = "noent") => doc = <<>>
  /\ inputFile = "" => file = "ok"
  /\ file = "scanerr" => Len(doc) <= 2
  /\ idx = 1
  /\ c = newTSCNConverter
  /\ currentSection = ""
  /\ currentSubResource = ""
  /\ format = 0
  /\ layers = <<>>
  /\ minTileX = 0 /\ maxTileX = 0 /\ minTileY = 0 /\ maxTileY = 0
  /\ tileTotalCount = 0
  /\ tilemapTileSize = [Width |-> DefaultTile, Height |-> DefaultTile]
  /\ tilemapOffset = Vec(0, 0)
  /\ prefabsDirectory \in dirs
  /\ fs \in fss
  /\ prefabsDirectory = "" => fs = NoFiles
  /\ parseCalls = EmptyMap
  /\ data = <<>>
  /\ err = ""
  /\ tileData = <<>>
  /\ newData = <<>>
  /\ jsonStr = <<>>
  /\ replacementsFile = "ok"
  /\ replacements = <<>>
  /\ replaced = <<>>

\* one Parse call and no other
InitWith(docs, files, inputs, dirs, fss) ==
  /\ InitCall(docs, files, inputs, dirs, fss)
  /\ pc2 = "off"
  /\ doc2 = <<>>
  /\ result2 = <<>>

Pipeline == Parse \/ Open \/ Finish \/ ParseLayers \/ Validate

\* documents of node headers, on a file that may fail to open or to scan
Init == InitWith(SeqsUpTo(NodeLines, MaxLines) \cup {<<>>}, {"ok", "noent", "scanerr"},
                 {"", "main.tscn"}, {""}, {NoFiles})
Next ==
  \/ Pipeline
  \/ ScanExtResourceHeader \/ ScanSubResourceHeader \/ ScanTileMapHeader
  \/ ScanSprite2DHeader \/ ScanInstanceHeader \/ ScanOtherHeader
  \/ ScanExtResourceLine \/ ScanSubResourceLine \/ ScanDecoratorLine
  \/ ScanSpriteLine \/ ScanTilemapLine \/ ScanUnsectionedLine \/ ScanComment
Spec == Init /\ [][Next]_vars

\* documents of resource declarations and tileset sources
InitTileset == InitWith(SeqsUpTo(TilesetLines, MaxLines), {"ok"}, {"main.tscn"},
                        {""}, {NoFiles})
NextTileset ==
  \/ Pipeline
  \/ ScanExtResourceHeader \/ ScanSubResourceHeader
  \/ ScanExtResourceLine \/ ScanSubResourceLine \/ ScanUnsectionedLine
SpecTileset == InitTileset /\ [][NextTileset]_vars

\* documents of tile layers
InitLayers == InitWith(SeqsUpTo(LayerLines, MaxLines), {"ok"}, {"main.tscn"},
                       {""}, {NoFiles})
NextLayers ==
  \/ Pipeline
  \/ ScanTileMapHeader \/ ScanSprite2DHeader
  \/ ScanDecoratorLine \/ ScanTilemapLine \/ ScanUnsectionedLine
SpecLayers == InitLayers /\ [][NextLayers]_vars

\* the minimal tilemap document and its neighbours
InitMinimal == InitWith(MinimalDocs, {"ok"}, {"main.tscn"}, {""}, {NoFiles})
NextMinimal ==
  \/ Pipeline
  \/ ScanExtResourceHeader \/ ScanSubResourceHeader \/ ScanSubResourceLine
  \/ ScanTileMapHeader \/ ScanTilemapLine
SpecMinimal == InitMinimal /\ [][NextMinimal]_vars

\* documents of instance nodes, with and without a prefab directory
InitPrefab == InitWith(SeqsUpTo(PrefabLines, MaxLines), {"ok"}, {"main.tscn"},
                       {"", "dir"}, FileSystems \cup {NoFiles})
NextPrefab ==
  \/ Pipeline
  \/ ScanExtResourceHeader \/ ScanInstanceHeader
  \/ ScanExtResourceLine \/ ScanSpriteLine \/ ScanUnsectionedLine
SpecPrefab == InitPrefab /\ [][NextPrefab]_vars

\* documents whose headers pass more than one test of the header dispatch
SectionLines ==
  {[ExtResourceLine("PackedScene", "", PathA, <<"e1">>) EXCEPT
      !.marks = {"ext_resource", "sub_resource"}],
   SubResourceLine("TileSet", "s1"),
   [TileMapLine EXCEPT !.marks = {"TileMap", "Sprite2D"}],
   [InstanceLine("M", "", "e1") EXCEPT !.marks = {"Sprite2D", "instance"}],
   InstanceLine("C", "", "e1"), OtherLine("N"),
   PositionLine(<<1, 2>>), CommentLine}
InitSections == InitWith(SeqsUpTo(SectionLines, MaxLines), {"ok"}, {"main.tscn"},
                         {""}, {NoFiles})
NextSections ==
  \/ Pipeline
  \/ ScanExtResourceHeader \/ ScanSubResourceHeader \/ ScanTileMapHeader
  \/ ScanSprite2DHeader \/ ScanInstanceHeader \/ ScanOtherHeader
  \/ ScanExtResourceLine \/ ScanSubResourceLine \/ ScanDecoratorLine
  \/ ScanSpriteLine \/ ScanTilemapLine \/ ScanUnsectionedLine \/ ScanComment
SpecSections == InitSections /\ [][NextSections]_vars

\* documents of instance nodes, parsed and then handed to ConvertToTilemap
MergeLines ==
  {ExtResourceLine("PackedScene", "", PathA, <<"e1">>),
   ExtResourceLine("PackedScene", "", PathB, <<"e2">>),
   InstanceLine("I1", "", "e1"), InstanceLine("I1", "P", "e2"),
   InstanceLine("I2", "P", "e2"), GidLine(<<7>>)}
InitMerge == InitWith(SeqsUpTo(MergeLines, MaxLines), {"ok"}, {"main.tscn"},
                      {"dir"}, FileSystems)
NextMerge ==
  \/ Pipeline
  \/ ScanExtResourceHeader \/ ScanInstanceHeader
  \/ ScanExtResourceLine \/ ScanSpriteLine \/ ScanUnsectionedLine
  \/ ConvertToTilemap
SpecMerge == InitMerge /\ [][NextMerge]_vars

\* two Parse calls on two layer documents, interleaved
FarTile == <<Encode(2, 0), Zero, Zero>>
SharedLines == {LayerNameLine(0, "ground"), TileDataLine(0, Square), TileDataLine(0, FarTile)}
SecondDocs == {<<LayerNameLine(0, "ground"), TileDataLine(0, Square)>>,
               <<LayerNameLine(0, "ground"), TileDataLine(0, FarTile)>>,
               <<TileDataLine(0, FarTile)>>}
InitShared ==
  /\ InitCall(SeqsUpTo(SharedLines, MaxLines), {"ok"}, {"main.tscn"}, {""}, {NoFiles})
  /\ pc2 = "open"
  /\ doc2 \in SecondDocs
  /\ result2 = <<>>
NextShared ==
  \/ Pipeline
  \/ ScanUnsectionedLine
  \/ Open2 \/ ParseLayers2 \/ Validate2
SpecShared == InitShared /\ [][NextShared]_vars

\* calls of applyReplacementsFromFile on short texts and rule lists
MaxText == 3
Letters == {"A", "B", "C"}
Rule(old, new) == [Old |-> old, New |-> new]
RuleInputs ==
  {Rule(old, new) : old \in {<<>>, <<"A">>, <<"B">>, <<"A", "B">>},
                    new \in {<<>>, <<"B">>, <<"C">>, <<"A", "A">>}}
RuleLists == {<<>>} \cup {<<r>> : r \in RuleInputs}
                   \cup {<<r, q>> : r \in RuleInputs, q \in RuleInputs}
InitReplace ==
  /\ pc = "replace"
  /\ jsonStr \in SeqsUpTo(Letters, MaxText) \cup {<<>>}
  /\ replacementsFile \in {"ok", "noent", "badjson"}
  /\ replacements \in RuleLists
  /\ replacementsFile # "ok" => replacements = <<>>
  /\ replaced = <<>>
  /\ inputFile = "" /\ file = "ok" /\ doc = <<>> /\ idx = 1
  /\ c = newTSCNConverter
  /\ currentSection = "" /\ currentSubResource = "" /\ format = 0 /\ layers = <<>>
  /\ minTileX = 0 /\ maxTileX = 0 /\ minTileY = 0 /\ maxTileY = 0
  /\ tileTotalCount = 0
  /\ tilemapTileSize = [Width |-> DefaultTile, Height |-> DefaultTile]
  /\ tilemapOffset = Vec(0, 0)
  /\ prefabsDirectory = "" /\ fs = NoFiles
  /\ parseCalls = EmptyMap
  /\ data = <<>> /\ err = ""
  /\ tileData = <<>> /\ newData = <<>>
  /\ pc2 = "off" /\ doc2 = <<>> /\ result2 = <<>>
NextReplace == ApplyReplacementsFromFile
SpecReplace == InitReplace /\ [][NextReplace]_vars

\* direct calls of convertTileDataFormat, the accumulators at their sentinels
InitCodec ==
  /\ pc = "codec"
  /\ tileData \in GroupInputs \cup ArrayInputs
  /\ newData = <<>>
  /\ inputFile = "" /\ file = "ok" /\ doc = <<>> /\ idx = 1
  /\ c = newTSCNConverter
  /\ currentSection = "" /\ currentSubResource = "" /\ format = 0 /\ layers = <<>>
  /\ minTileX = BoundsSentinel /\ maxTileX = -BoundsSentinel
  /\ minTileY = BoundsSentinel /\ maxTileY = -BoundsSentinel
  /\ tileTotalCount = 0
  /\ tilemapTileSize = [Width |-> DefaultTile, Height |-> DefaultTile]
  /\ tilemapOffset = Vec(0, 0)
  /\ prefabsDirectory = "" /\ fs = NoFiles
  /\ parseCalls = EmptyMap
  /\ data = <<>> /\ err = ""
  /\ pc2 = "off" /\ doc2 = <<>> /\ result2 = <<>>
  /\ jsonStr = <<>> /\ replacementsFile = "ok" /\ replacements = <<>> /\ replaced = <<>>
NextCodec == Convert
SpecCodec == InitCodec /\ [][NextCodec]_vars

\* documents of tileset sources with collision polygons
Box8 == <<0, 0, 8, 0, 8, 8, 0, 8>>
Triangle == <<0, 0, 8, 0, 8, 8>>
SourceLines ==
  {ExtResourceLine("Texture2D", "", PathT, <<"e1">>),
   SubResourceLine("TileSetAtlasSource", "s1"),
   TextureLine("e1"), PhysicsLine(Box8), PhysicsLine(Triangle),
   SourcesLine(0, "s1"), SourcesLine(0, ""), SourcesLine(1, "s1")}
InitSources == InitWith(SeqsUpTo(SourceLines, MaxLines), {"ok"}, {"main.tscn"},
                        {""}, {NoFiles})
NextSources ==
  \/ Pipeline
  \/ ScanExtResourceHeader \/ ScanSubResourceHeader
  \/ ScanExtResourceLine \/ ScanSubResourceLine \/ ScanUnsectionedLine
SpecSources == InitSources /\ [][NextSources]_vars

\* documents of collision-shape sub-resources
ShapeLines ==
  {SubResourceLine("RectangleShape2D", "s1"), SubResourceLine("CircleShape2D", "s1"),
   SubResourceLine("TileSetAtlasSource", "s2"),
   SizeLine(<<4, 6>>), RadiusLine(<<3>>), PointsLine(Triangle)}
InitShapes == InitWith(SeqsUpTo(ShapeLines, MaxLines), {"ok"}, {"main.tscn"},
                       {""}, {NoFiles})
NextShapes ==
  \/ Pipeline
  \/ ScanSubResourceHeader \/ ScanSubResourceLine \/ ScanUnsectionedLine
SpecShapes == InitShapes /\ [][NextShapes]_vars

\* one instance node, on prefab sub-documents of up to MaxLines lines
PrefabFileLines ==
  {NodeHeader("Crate", {}), NodeHeader("S1", {"Sprite2D"}), NodeHeader("S2", {"Sprite2D"}),
   [NodeHeader("Hit", {"CollisionShape2D"}) EXCEPT !.parent = "."],
   PositionLine(<<4, 4>>), ScaleLine(<<3, 3>>), RotationLine(<<5>>)}
InstanceDocs ==
  {<<ExtResourceLine("PackedScene", "", PathA, <<"e1">>), InstanceLine("I1", "", "e1")>>,
   <<ExtResourceLine("PackedScene", "", PathA, <<"e1">>), InstanceLine("I1", "", "e1"),
     RotationLine(<<7>>), ScaleLine(<<2, 3>>)>>}
PrefabFiles == {(<<"dir", "a.tscn">> :> <<f>>) : f \in SeqsUpTo(PrefabFileLines, MaxLines)}
InitPrefabFile == InitWith(InstanceDocs, {"ok"}, {"main.tscn"}, {"dir"}, PrefabFiles)
NextPrefabFile ==
  \/ Pipeline
  \/ ScanExtResourceHeader \/ ScanInstanceHeader \/ ScanSpriteLine
SpecPrefabFile == InitPrefabFile /\ [][NextPrefabFile]_vars

\* documents of Sprite2D and instance nodes, on a prefab with a collider
PrefabDocC == <<NodeHeader("Crate", {}), NodeHeader("Sprite", {"Sprite2D"}),
                ScaleLine(<<3, 3>>),
                [NodeHeader("Hit", {"CollisionShape2D"}) EXCEPT !.parent = "."],
                PositionLine(<<4, 4>>)>>
DecorateLines ==
  {ExtResourceLine("PackedScene", "", PathA, <<"e1">>),
   Sprite2DLine("D", "P"), InstanceLine("I1", "P", "e1"), InstanceLine("I2", "", "e2"),
   ScaleLine(<<2, 3>>), GidLine(<<7>>)}
ColliderFiles == {(<<"dir", "a.tscn">> :> f) : f \in {<<>>, <<PrefabDocC>>}}
InitDecorate == InitWith(SeqsUpTo(DecorateLines, MaxLines), {"ok"}, {"main.tscn"},
                         {"dir"}, ColliderFiles)
NextDecorate ==
  \/ Pipeline
  \/ ScanExtResourceHeader \/ ScanSprite2DHeader \/ ScanInstanceHeader
  \/ ScanExtResourceLine \/ ScanDecoratorLine \/ ScanSpriteLine \/ ScanUnsectionedLine
  \/ ConvertToTilemap
SpecDecorate == InitDecorate /\ [][NextDecorate]_vars

\* two Parse calls on two layer documents, one after the other
InitSequential ==
  /\ InitCall(SeqsUpTo(SharedLines, MaxLines), {"ok"}, {"main.tscn"}, {""}, {NoFiles})
  /\ pc2 = "off"
  /\ doc2 \in SecondDocs
  /\ result2 = <<>>
NextSequential ==
  \/ Pipeline
  \/ ScanUnsectionedLine
  \/ ParseAgain \/ Open2 \/ ParseLayers2 \/ Validate2
SpecSequential == InitSequential /\ [][NextSequential]_vars

\* convertTileDataFormat under a configured tile size and pixel offset
InitOffset ==
  /\ pc = "codec"
  /\ tileData \in GroupInputs \cup {Square, FarTile}
  /\ newData = <<>>
  /\ inputFile = "" /\ file = "ok" /\ doc = <<>> /\ idx = 1
  /\ c = newTSCNConverter
  /\ currentSection = "" /\ currentSubResource = "" /\ format = 0 /\ layers = <<>>
  /\ minTileX = BoundsSentinel /\ maxTileX = -BoundsSentinel
  /\ minTileY = BoundsSentinel /\ maxTileY = -BoundsSentinel
  /\ tileTotalCount = 0
  /\ tilemapTileSize = [Width |-> DefaultTile, Height |-> DefaultTile]
  /\ tilemapOffset = Vec(0, 0)
  /\ prefabsDirectory = "" /\ fs = NoFiles
  /\ parseCalls = EmptyMap
  /\ data = <<>> /\ err = ""
  /\ pc2 = "off" /\ doc2 = <<>> /\ result2 = <<>>
  /\ jsonStr = <<>> /\ replacementsFile = "ok" /\ replacements = <<>> /\ replaced = <<>>
NextOffset == SetTileSize \/ SetOffset \/ Convert
SpecOffset == InitOffset /\ [][NextOffset]_vars

\* documents of positioned nodes, under a configured pixel offset
PositionLines ==
  {Sprite2DLine("D", ""), InstanceLine("I1", "", "e1"),
   PositionLine(<<3, 5>>), PositionLine(<<>>)}
InitPosition == InitWith(SeqsUpTo(PositionLines, MaxLines), {"ok"}, {"main.tscn"},
                         {""}, {NoFiles})
NextPosition ==
  \/ Pipeline
  \/ SetOffset
  \/ ScanSprite2DHeader \/ ScanInstanceHeader
  \/ ScanDecoratorLine \/ ScanSpriteLine \/ ScanUnsectionedLine
SpecPosition == InitPosition /\ [][NextPosition]_vars

\* documents of a collision polygon and a tile layer, under a configured tile
\* size and pixel offset
TileSizeLines ==
  {SubResourceLine("TileSetAtlasSource", "s1"), PhysicsLine(Box8),
   LayerNameLine(0, "ground"), TileDataLine(0, Square)}
InitTileSize == InitWith(SeqsUpTo(TileSizeLines, MaxLines), {"ok"}, {"main.tscn"},
                         {""}, {NoFiles})
NextTileSize ==
  \/ Pipeline
  \/ SetTileSize \/ SetOffset
  \/ ScanSubResourceHeader \/ ScanSubResourceLine \/ ScanUnsectionedLine
SpecTileSize == InitTileSize /\ [][NextTileSize]_vars

\* ------------------------------------------------------------ claims
Returned == pc \in {"done", "panic"}
Names(nodes) == [i \in DOMAIN nodes |-> nodes[i].Name]
IsNodeHeader(line, section) == line.hdr /\ HeaderSection(line) = section
HeadersOf(section) == SelectSeq(doc, LAMBDA l : IsNodeHeader(l, section))
HeaderNames(section) == [i \in DOMAIN HeadersOf(section) |-> HeadersOf(section)[i].name]

\* C1: when the input file cannot be opened or its line scan fails, the call
\* returns (it does not crash) and the error it returns is not nil.
C1_IOFailureReturned ==
  (Returned /\ inputFile # "" /\ file # "ok") => (pc = "done" /\ err # "")

\* C2: for the minimal tilemap document, the result holds exactly one tileset
\* source (id 0, the declared texture path) and exactly one layer with exactly
\* one placement: source 0, tileX 0, tileY -1, atlas (0, 0).
C2_MinimalDocument ==
  (pc = "done" /\ doc = MinimalDoc) =>
     /\ data # <<>>
     /\ Len(data[1].TileMap.TileSet.Sources) = 1
     /\ data[1].TileMap.TileSet.Sources[1].ID = 0
     /\ data[1].TileMap.TileSet.Sources[1].TexturePath = PathT
     /\ Len(data[1].TileMap.Layers) = 1
     /\ data[1].TileMap.Layers[1].TileData = <<0, 0, -1, 0, 0>>

\* the placements of the returned layers: <<layer, 0-based group>>
Placements ==
  {<<l, k>> : l \in DOMAIN data[1].TileMap.Layers, k \in 0..MaxLines} \cap
  {g \in (DOMAIN data[1].TileMap.Layers) \X (0..MaxLines) :
     5 * g[2] + 5 <= Len(data[1].TileMap.Layers[g[1]].TileData)}
\* the decoded coordinates of the placements (emitted tileY is the decoded Y negated)
PlacedXs == {data[1].TileMap.Layers[g[1]].TileData[5 * g[2] + 2] : g \in Placements}
PlacedYs == {-data[1].TileMap.Layers[g[1]].TileData[5 * g[2] + 3] : g \in Placements}
IsOdd(n) == n % 2 = 1
OddBox == \/ IsOdd(SetMax(PlacedXs) - SetMin(PlacedXs) + 1)
          \/ IsOdd(SetMax(PlacedYs) - SetMin(PlacedYs) + 1)
Populated ==
  /\ data[1].Decorators = c.decorators
  /\ data[1].Sprites = c.sprites
  /\ {data[1].TileMap.TileSet.Sources[i].ID : i \in DOMAIN data[1].TileMap.TileSet.Sources}
       = DOMAIN c.sources
  /\ data[1].TileMap.Layers # <<>>

\* C3: when the placements decoded from a document span a bounding box of odd
\* width or odd height, the call returns a non-nil error together with a
\* non-nil MapData holding the document's tileset, layers and nodes.
C3_OddBoxIsError ==
  (pc = "done" /\ tileTotalCount > 0) =>
     /\ data # <<>>
     /\ Placements # {}
     /\ OddBox => (err # "" /\ Populated)

C3_Witness ==
  /\ pc = "done" /\ tileTotalCount > 0 /\ data # <<>>
  /\ OddBox /\ err # ""
  /\ IsOdd(SetMax(PlacedXs) - SetMin(PlacedXs) + 1)
  /\ ~IsOdd(SetMax(PlacedYs) - SetMin(PlacedYs) + 1)
  /\ Len(data[1].Decorators) >= 1

\* C4: with a zero offset, the group [((y&0xFFFF)<<16)|(x&0xFFFF), s, a] with x
\* and y in [-32768, 32767] converts to exactly [s, x, -y, a&0xFFFF,
\* (a>>16)&0xFFFF].
C4_RoundTrip ==
  \A x \in Coords, y \in Coords, s \in SourceIds, a \in AtlasWords :
    (pc = "converted" /\ tilemapOffset = Vec(0, 0)
       /\ tileData = <<Encode(x, y), ToWord(s), a>>)
    => newData = <<s, x, -y, a[2], a[1] % Wrap16>>

C4_Witness ==
  /\ pc = "converted"
  /\ tileData = <<Encode(-SignBit16, SignBit16 - 1), ToWord(3), Word(Wrap16 + 3, 4)>>
  /\ newData = <<3, -SignBit16, -(SignBit16 - 1), 4, 3>>

\* C5: every Sprite2D node header yields exactly one decorator and every
\* instance node header exactly one sprite, each list in scan order, whatever
\* headers lie between a node header and the next one or the end.
C5_EveryNodeKept ==
  (pc = "done" /\ data # <<>>) =>
     /\ Names(data[1].Decorators) = HeaderNames("decorator")
     /\ Names(data[1].Sprites) = HeaderNames("sprite")

SpritesWithPath(p) == {i \in DOMAIN c.sprites : c.sprites[i].Path = p}
SpritePaths == {c.sprites[i].Path : i \in DOMAIN c.sprites}

\* C6 as stated: with a prefab directory configured, each declared prefab path
\* is parsed at most once, and exactly once when instance nodes reference it,
\* readable or not.
C6_ParsedOncePerPath ==
  (pc = "done" /\ prefabsDirectory # "") =>
     \A p \in SpritePaths : Count(parseCalls, p) = 1

\* C6 amended: with a prefab directory configured, a declared prefab path
\* whose sub-document is readable is parsed exactly once however many instance
\* nodes reference it; an unreadable one is attempted once per referencing
\* instance node, a failed call not being cached.
C6_ParsedOnceIfReadable ==
  (pc = "done" /\ prefabsDirectory # "") =>
     /\ DOMAIN parseCalls = SpritePaths
     /\ \A p \in SpritePaths :
          IF Readable(resolvePrefabPath(p))
          THEN parseCalls[p] = 1 /\ Has(c.prefabCache, p)
          ELSE parseCalls[p] = Cardinality(SpritesWithPath(p)) /\ ~Has(c.prefabCache, p)

C6_Witness ==
  /\ pc = "done" /\ prefabsDirectory # ""
  /\ \E p \in SpritePaths :
       /\ Cardinality(SpritesWithPath(p)) >= 2
       /\ Readable(resolvePrefabPath(p))
       /\ parseCalls[p] = 1

\* C7: the tileset sources of the returned MapData are strictly ascending by
\* id, whatever the order of the sources/N lines, and none is lost.
C7_SourcesAscending ==
  data # <<>> =>
     LET srcs == data[1].TileMap.TileSet.Sources
     IN  /\ \A i, j \in DOMAIN srcs : i < j => srcs[i].ID < srcs[j].ID
         /\ {srcs[i].ID : i \in DOMAIN srcs} = DOMAIN c.sources

C7_Witness ==
  /\ pc = "done" /\ data # <<>>
  /\ Len(data[1].TileMap.TileSet.Sources) >= 3
  /\ \E i, j \in DOMAIN doc :
       i < j /\ doc[i].key = "sources" /\ doc[j].key = "sources" /\ doc[i].n > doc[j].n

\* the section the scanner is in when it reads line i: that of the last header before it
SectionAt(i) ==
  LET hs == {j \in 1..(i - 1) : doc[j].hdr}
  IN  IF hs = {} THEN "" ELSE HeaderSection(doc[SetMax(hs)])
\* line i is handed to parseExtResource
DeclaredAt(i) ==
  IF doc[i].hdr THEN HeaderSection(doc[i]) = "ext_resource"
  ELSE doc[i].key # "comment" /\ SectionAt(i) = "ext_resource"
\* the id of the declaration on line i: the last id="..." match
DeclId(i) == IF doc[i].ids = <<>> THEN "" ELSE doc[i].ids[Len(doc[i].ids)]
ScannedDecls == {i \in 1..(idx - 1) : DeclaredAt(i) /\ DeclId(i) # ""}
LastDecl(id) == SetMax({i \in ScannedDecls : DeclId(i) = id})

\* C8: the external-resource table holds exactly one entry per distinct
\* declared id, the entry of an id is that of its last declaration, and a
\* declaration without an id adds no entry.
C8_ExtTableLastWins ==
  pc \in {"scan", "layers", "validate", "done"} =>
     /\ DOMAIN c.extResources = {DeclId(i) : i \in ScannedDecls}
     /\ \A id \in DOMAIN c.extResources :
          c.extResources[id] = [ID |-> id, Type |-> doc[LastDecl(id)].typ,
                                Path |-> doc[LastDecl(id)].path,
                                UID |-> doc[LastDecl(id)].uid]

C8_Witness ==
  /\ pc = "done"
  /\ \E i, j \in ScannedDecls :
       i < j /\ DeclId(i) = DeclId(j) /\ doc[i].path # doc[j].path
       /\ c.extResources[DeclId(i)].Path = doc[j].path
  /\ \E k \in 1..Len(doc) : DeclaredAt(k) /\ DeclId(k) = ""
  /\ Cardinality(DOMAIN c.extResources) = 1

\* C9: convertTileDataFormat returns 5 * floor(n / 3) integers for an array of
\* n: five per complete group of three, a trailing group of 1 or 2 dropped.
C9_FivePerGroup ==
  pc = "converted" => Len(newData) = 5 * (Len(tileData) \div 3)

C9_Witness ==
  /\ pc = "converted" /\ Len(tileData) = 5 /\ Len(newData) = 5

\* whether buildPrefabNodes can enrich a sprite of this path, and the name it
\* then gives the prefab node
Enrichable(p) == prefabsDirectory # "" /\ Readable(resolvePrefabPath(p))
FinalName(sprite) ==
  IF Enrichable(sprite.Path) THEN parsePrefabFile(resolvePrefabPath(sprite.Path)).Name
  ELSE sprite.Name
InPrefabs(node) == \E k \in DOMAIN data[1].Prefabs : data[1].Prefabs[k] = node

\* C10: when the prefab directory is unset or the sub-document is unreadable,
\* the parse completes with no prefab-related error, the instance node is in
\* the sprites list, and, unless an earlier node took its name, the prefabs
\* list holds it with its scanned name, path, position, scale and rotation and
\* with no texture, pivot or collider.
C10_SoftPrefabFailure ==
  pc = "done" =>
     /\ data # <<>>
     /\ err \in {"", "odd"}
     /\ data[1].Sprites = c.sprites
     /\ \A i \in DOMAIN c.sprites :
          (/\ ~Enrichable(c.sprites[i].Path)
           /\ \A j \in 1..(i - 1) : FinalName(c.sprites[j]) # c.sprites[i].Name)
          => InPrefabs(PrefabOfSprite(c.sprites[i]))

C10_Witness ==
  /\ pc = "done" /\ prefabsDirectory # "" /\ data # <<>>
  /\ \E i \in DOMAIN c.sprites :
       /\ ~Enrichable(c.sprites[i].Path)
       /\ c.sprites[i].Path = PathB
       /\ c.sprites[i].Scale = Vec(2, 3)
       /\ InPrefabs(PrefabOfSprite(c.sprites[i]))
       /\ parseCalls[PathB] = 1

\* the prefab node buildPrefabNodes derives from one sprite, before de-duplication
DerivedPrefab(sprite) ==
  IF Enrichable(sprite.Path)
  THEN MergePrefabInfo(PrefabOfSprite(sprite), parsePrefabFile(resolvePrefabPath(sprite.Path)))
  ELSE PrefabOfSprite(sprite)
\* the sprites that are the first in scan order to carry their final name
FirstOfName ==
  {i \in DOMAIN c.sprites :
     \A j \in 1..(i - 1) : FinalName(c.sprites[j]) # FinalName(c.sprites[i])}
\* the k-th of them in scan order
FirstOfNameAt(k) ==
  CHOOSE i \in FirstOfName : Cardinality({j \in FirstOfName : j <= i}) = k

\* C11: the prefabs list never holds two entries of one name; the entry kept
\* for a name is the one derived from the first sprite in scan order whose
\* name, after any prefab name override, is that name, and the kept entries
\* are in scan order.
C11_PrefabsFirstOfName ==
  (pc = "done" /\ data # <<>>) =>
     /\ \A k, l \in DOMAIN data[1].Prefabs :
          k # l => data[1].Prefabs[k].Name # data[1].Prefabs[l].Name
     /\ Len(data[1].Prefabs) = Cardinality(FirstOfName)
     /\ \A k \in DOMAIN data[1].Prefabs :
          data[1].Prefabs[k] = DerivedPrefab(c.sprites[FirstOfNameAt(k)])

C11_Witness ==
  /\ pc = "done" /\ data # <<>>
  /\ Len(c.sprites) = 3 /\ Len(data[1].Prefabs) = 2
  /\ \E i \in DOMAIN c.sprites :
       /\ i \notin FirstOfName
       /\ Enrichable(c.sprites[i].Path)
       /\ FinalName(c.sprites[i]) # c.sprites[i].Name
  /\ 3 \in FirstOfName

\* what a document yields when it is parsed alone: the accumulators its layer
\* pass leaves, started from the sentinels, and the verdict on them
FreshBounds ==
  [minX |-> BoundsSentinel, maxX |-> -BoundsSentinel, minY |-> BoundsSentinel,
   maxY |-> -BoundsSentinel, count |-> 0]
AloneBounds(d) == parseLayersFromTSCN(d, FreshBounds).bounds
AloneResult(d) == VerdictOf(AloneBounds(d))
OwnResult == <<err, data[1].TileMap.WorldTileSize>>
\* the layer pass of the second call widens the accumulators the first call reads
SecondCallWidens ==
  (pc2 = "layers" /\ pc2' = "validate") =>
     /\ minTileX' = Min(minTileX, AloneBounds(doc2).minX)
     /\ maxTileX' = Max(maxTileX, AloneBounds(doc2).maxX)
     /\ minTileY' = Min(minTileY, AloneBounds(doc2).minY)
     /\ maxTileY' = Max(maxTileY, AloneBounds(doc2).maxY)
\* the first call's check reads the accumulators as whichever call left them
FirstCallReadsShared ==
  (pc = "validate" /\ pc' = "done") => <<err', data'[1].TileMap.WorldTileSize>> = VerdictOf(Bounds)

\* C12: the accumulators are shared by all calls: the layer pass of a second
\* call writes into the accumulators the first call's even-dimension check
\* reads, so a document's verdict is its own only as long as no other call
\* has touched them, and with interleaved calls it can differ from the one
\* the document yields alone.
C12_SharedAccumulators ==
  /\ []((pc = "done" /\ data # <<>> /\ pc2 = "open") => OwnResult = AloneResult(doc))
  /\ [][SecondCallWidens /\ FirstCallReadsShared]_vars

C12_Witness ==
  /\ pc = "done" /\ data # <<>> /\ pc2 = "done"
  /\ AloneResult(doc) = <<"", [Width |-> 2, Height |-> 2]>>
  /\ OwnResult # AloneResult(doc)
  /\ err = "odd"

\* the package globals as the process starts: Go's zero values and the
\* declared defaults
GlobalsUntouched ==
  /\ minTileX = 0 /\ maxTileX = 0 /\ minTileY = 0 /\ maxTileY = 0
  /\ tileTotalCount = 0
  /\ tilemapTileSize = [Width |-> DefaultTile, Height |-> DefaultTile]
  /\ tilemapOffset = Vec(0, 0)

\* C13: Parse with an empty input path returns a nil result and a non-nil
\* error; it never reaches the opening of a file, and the accumulators and the
\* configuration stay as they were.
C13_EmptyPathRejected ==
  inputFile = "" =>
     /\ pc \in {"start", "done"}
     /\ GlobalsUntouched
     /\ parseCalls = EmptyMap
     /\ pc = "done" => (data = <<>> /\ err = "input file is empty")

C13_Witness ==
  inputFile = "" /\ pc = "done" /\ data = <<>> /\ err # "" /\ GlobalsUntouched

\* the text after the first n rules, told from the last rule backwards
RECURSIVE AfterRules(_)
AfterRules(n) ==
  IF n = 0 THEN jsonStr
  ELSE IF replacements[n].Old = <<>> THEN AfterRules(n - 1)
  ELSE ReplaceAll(AfterRules(n - 1), replacements[n].Old, replacements[n].New)
\* a replacement of a one-character old, told character by character
RECURSIVE Substituted(_, _, _)
Substituted(text, letter, new) ==
  IF text = <<>> THEN <<>>
  ELSE (IF Head(text) = letter THEN new ELSE <<Head(text)>>)
       \o Substituted(Tail(text), letter, new)

\* C14: applyReplacementsFromFile applies the rules in array order, each as a
\* global literal replacement on the text the previous rule left, skipping
\* rules with an empty old; the rules [A->B, B->C] turn "A" into "C".
C14_RulesInOrder ==
  (pc = "replaced" /\ replacementsFile = "ok") =>
     /\ replaced = AfterRules(Len(replacements))
     /\ (Len(replacements) = 2 /\ Len(replacements[1].Old) = 1 /\ Len(replacements[2].Old) = 1)
          => replaced = Substituted(Substituted(jsonStr, replacements[1].Old[1],
                                                replacements[1].New),
                                    replacements[2].Old[1], replacements[2].New)
     /\ (jsonStr = <<"A">> /\ replacements = <<Rule(<<"A">>, <<"B">>), Rule(<<"B">>, <<"C">>)>>)
          => replaced = <<"C">>

C14_Witness ==
  /\ pc = "replaced" /\ replacementsFile = "ok"
  /\ jsonStr = <<"A">>
  /\ replacements = <<Rule(<<"A">>, <<"B">>), Rule(<<"B">>, <<"C">>)>>
  /\ replaced = <<"C">>

\* C15: after ConvertToTilemap(data) returns for a non-nil data, the sprites
\* have been merged into the decorators list and data.Sprites and data.Prefabs
\* are empty.
C15_SpritesAndPrefabsRemoved ==
  (pc = "merged" /\ data # <<>>) =>
     /\ Len(data[1].Decorators) >= Len(c.decorators)
     /\ data[1].Sprites = <<>>
     /\ data[1].Prefabs = <<>>

\* the section a header selects, test by test in the order of the dispatch
FirstMatch(marks) ==
  IF "ext_resource" \in marks THEN "ext_resource"
  ELSE IF "sub_resource" \in marks THEN "sub_resource"
  ELSE IF "TileMap" \in marks THEN "tilemap"
  ELSE IF "Sprite2D" \in marks THEN "decorator"
  ELSE IF "instance" \in marks THEN "sprite"
  ELSE "other"
\* the converter a content line leaves when the handler of a section gets it
Handled(section, line) ==
  CASE section = "ext_resource" -> parseExtResource(c, line)
    [] section = "sub_resource" -> parseSubResource(c, line, currentSubResource)
    [] section = "decorator"    -> parseDecoratorProperty(c, line)
    [] section = "sprite"       -> parseSpriteProperty(c, line)
    [] OTHER                    -> c
\* one line of the scan
LineScanned ==
  (pc = "scan" /\ idx <= Len(doc) /\ idx' = idx + 1) =>
     IF doc[idx].hdr THEN currentSection' = FirstMatch(doc[idx].marks)
     ELSE IF doc[idx].key = "comment" THEN UNCHANGED <<c, currentSection>>
     ELSE /\ currentSection' = currentSection
          /\ c' = Handled(currentSection, doc[idx])

\* C16: the current section changes only on a header line, which selects it by
\* the first matching test in the order ext_resource, sub_resource, TileMap
\* node, Sprite2D type, instance=ExtResource, otherwise other; every other
\* non-comment line goes to the handler of the current section alone and
\* leaves the section as it is.
C16_SectionDispatch == [][LineScanned]_vars

C16_Witness ==
  /\ pc = "scan" /\ idx = 4
  /\ doc[1].marks = {"ext_resource", "sub_resource"}
  /\ doc[2].marks = {"Sprite2D", "instance"}
  /\ doc[3].key = "position"
  /\ currentSection = "decorator"
  /\ c.currentDecorator # <<>> /\ c.currentDecorator[1].Position = Vec(1, -2)
  /\ c.currentSprite = <<>>
  /\ Has(c.extResources, "e1")

\* a pair of instance nodes of different paths and one final name, the second
\* of a path under which no prefab node is kept
Shadowed(i, j) ==
  /\ i < j
  /\ i \in FirstOfName
  /\ c.sprites[i].Path # c.sprites[j].Path
  /\ FinalName(c.sprites[i]) = FinalName(c.sprites[j])
  /\ \A k \in FirstOfName : c.sprites[k].Path # c.sprites[j].Path
\* where ConvertToTilemap puts the decorator of sprite j
DecoratorIndex(j) ==
  Len(c.decorators) + Cardinality({k \in 1..j : ~HasGid(c.sprites[k])})
PrefabsNamed(name) == {k \in DOMAIN data[1].Prefabs : data[1].Prefabs[k].Name = name}

SubResourceAt(i) ==
  extractSubResourceID(doc[SetMax({j \in 1..(i - 1) : doc[j].hdr})])
\* line i is a sources/N line that parseSubResource gets
SourceLineAt(i) ==
  ~doc[i].hdr /\ doc[i].key = "sources" /\ doc[i].n # -1 /\ SectionAt(i) = "sub_resource"
\* the texture bindings of sub-resource r recorded before line i
BindingsBefore(i, r) ==
  {j \in 1..(i - 1) : /\ ~doc[j].hdr /\ doc[j].key = "texture" /\ doc[j].ref # ""
                      /\ SectionAt(j) = "sub_resource"
                      /\ SubResourceAt(j) = r /\ r # ""}
\* the declarations of external resource e recorded before line i
DeclsBefore(i, e) == {k \in 1..(i - 1) : DeclaredAt(k) /\ DeclId(k) = e}
BoundBefore(i) == doc[SetMax(BindingsBefore(i, doc[i].ref))].ref
\* what the sources/N line i can resolve from the lines before it
ResolvedAt(i) ==
  IF BindingsBefore(i, doc[i].ref) = {} THEN Unknown
  ELSE IF DeclsBefore(i, BoundBefore(i)) = {} THEN Unknown
  ELSE doc[SetMax(DeclsBefore(i, BoundBefore(i)))].path
\* the last sources/N line of each source id among the lines scanned so far
LastSourceLines ==
  {i \in 1..(idx - 1) :
     /\ SourceLineAt(i)
     /\ \A k \in (i + 1)..(idx - 1) : ~(SourceLineAt(k) /\ doc[k].n = doc[i].n)}

\* C18: a sources/N line sets the texture path to the path of the external
\* resource bound to the referenced sub-resource only if both the binding and
\* the external resource were recorded before it; otherwise the path is
\* "unknown", and declarations after the line do not correct it.
C18_ResolvedAtSourcesLine ==
  pc \in {"scan", "layers", "validate", "done"} =>
     /\ \A i \in LastSourceLines :
          /\ Has(c.sources, doc[i].n)
          /\ c.sources[doc[i].n].TexturePath = ResolvedAt(i)
     /\ data # <<>> =>
          \A k \in DOMAIN data[1].TileMap.TileSet.Sources :
            \E i \in LastSourceLines :
              /\ doc[i].n = data[1].TileMap.TileSet.Sources[k].ID
              /\ data[1].TileMap.TileSet.Sources[k].TexturePath = ResolvedAt(i)

C18_Witness ==
  /\ pc = "done" /\ data # <<>>
  /\ Len(doc) = 4
  /\ SourceLineAt(2) /\ doc[2].ref = "s1"
  /\ doc[3].key = "texture"
  /\ DeclaredAt(4) /\ DeclId(4) = "e1"
  /\ data[1].TileMap.TileSet.Sources[1].TexturePath = Unknown

\* the layer_M/name lines, and the last of them before line i
LayerNameLines == {j \in DOMAIN doc : doc[j].key = "layer_name" /\ doc[j].n # -1}
NameLineBefore(i) == SetMax({j \in LayerNameLines : j < i})
\* line i is a tile_data line with a name line since the last emitting one
RECURSIVE Emits(_)
Emits(i) ==
  /\ doc[i].key = "tile_data"
  /\ \E j \in LayerNameLines :
       j < i /\ \A k \in (j + 1)..(i - 1) : ~Emits(k)
EmittingLines == {i \in DOMAIN doc : Emits(i)}
EmittingAt(k) ==
  CHOOSE i \in EmittingLines : Cardinality({j \in EmittingLines : j <= i}) = k
\* the complete groups of the emitting lines
EmittedGroups ==
  UNION {{<<i, g>> : g \in 1..(Len(doc[i].data) \div 3)} : i \in EmittingLines}

\* C19: the layer pass emits a layer for a tile_data line only if a
\* layer_M/name line was seen since the previously emitted layer or the start
\* of the document; the layer takes its id and name from that name line, and
\* a tile_data line without one yields no layer and leaves the accumulators
\* untouched.
C19_LayerNeedsName ==
  (pc \in {"validate", "done"} /\ data # <<>>) =>
     /\ Len(data[1].TileMap.Layers) = Cardinality(EmittingLines)
     /\ \A k \in DOMAIN data[1].TileMap.Layers :
          /\ data[1].TileMap.Layers[k].ID = doc[NameLineBefore(EmittingAt(k))].n
          /\ data[1].TileMap.Layers[k].Name = doc[NameLineBefore(EmittingAt(k))].name
          /\ Len(data[1].TileMap.Layers[k].TileData) = 5 * (Len(doc[EmittingAt(k)].data) \div 3)
     /\ tileTotalCount = Cardinality(EmittedGroups)
     /\ IF EmittedGroups = {}
        THEN /\ minTileX = BoundsSentinel /\ maxTileX = -BoundsSentinel
             /\ minTileY = BoundsSentinel /\ maxTileY = -BoundsSentinel
        ELSE /\ minTileX = SetMin(PlacedXs) /\ maxTileX = SetMax(PlacedXs)
             /\ minTileY = SetMin(PlacedYs) /\ maxTileY = SetMax(PlacedYs)

C19_Witness ==
  /\ pc = "done" /\ data # <<>>
  /\ Len(doc) = 4
  /\ doc[1] = TileDataLine(0, LeftTile)
  /\ doc[2].key = "layer_name"
  /\ doc[3] = TileDataLine(1, Column)
  /\ doc[4] = TileDataLine(0, Square)
  /\ Len(data[1].TileMap.Layers) = 1
  /\ data[1].TileMap.Layers[1].ID = 0
  /\ data[1].TileMap.Layers[1].Name = "ground"
  /\ tileTotalCount = 2
  /\ minTileX = 0 /\ maxTileX = 0

\* C20: for a readable document with no tile placements the accumulators keep
\* their sentinels (min 1000000, max -1000000), the computed width and height
\* are both -1999999, and ConvertTSCNToTileMap returns the even-dimension
\* error and leaves WorldTileSize unset.
C20_NoTilesIsOddError ==
  (pc = "done" /\ data # <<>> /\ EmittedGroups = {}) =>
     /\ minTileX = 1000000 /\ maxTileX = -1000000
     /\ minTileY = 1000000 /\ maxTileY = -1000000
     /\ maxTileX - minTileX + 1 = -1999999
     /\ maxTileY - minTileY + 1 = -1999999
     /\ err = "odd"
     /\ data[1].TileMap.WorldTileSize = [Width |-> 0, Height |-> 0]

C20_Witness ==
  /\ pc = "done" /\ data # <<>> /\ EmittedGroups = {}
  /\ \E i \in DOMAIN doc : doc[i].key = "tile_data"
  /\ \E i \in DOMAIN doc : doc[i].key = "layer_name"
  /\ err = "odd" /\ minTileX = BoundsSentinel
  /\ data[1].TileMap.Layers = <<>>


\* the collision polygons of sub-resource r recorded before line i
PhysicsBefore(i, r) ==
  {j \in 1..(i - 1) : /\ ~doc[j].hdr /\ doc[j].key = "physics"
                      /\ Len(extractPolygonPoints(doc[j])) >= 4
                      /\ SectionAt(j) = "sub_resource"
                      /\ SubResourceAt(j) = r /\ r # ""}
PhysicsAt(i) ==
  IF PhysicsBefore(i, doc[i].ref) = {} THEN <<>>
  ELSE extractPolygonPoints(doc[SetMax(PhysicsBefore(i, doc[i].ref))])
\* the entry the sources/N line i builds from the lines before it
BuiltAt(i) ==
  [ID |-> doc[i].n, TexturePath |-> ResolvedAt(i),
   Tiles |-> <<[AtlasCoords |-> Vec(0, 0), Physics |-> PhysicsAt(i)]>>]
SourceIdsScanned == {doc[i].n : i \in LastSourceLines}

\* C21: when several sources/ lines declare the same source id, the source
\* table and the output hold a single entry for the id, and it is the entry
\* built from the last of these lines, with the texture path and the physics
\* data as they resolve at that line.
C21_LastSourcesLineWins ==
  pc \in {"scan", "layers", "validate", "done"} =>
     /\ DOMAIN c.sources = SourceIdsScanned
     /\ \A i \in LastSourceLines : c.sources[doc[i].n] = BuiltAt(i)
     /\ data # <<>> =>
          /\ Len(data[1].TileMap.TileSet.Sources) = Cardinality(SourceIdsScanned)
          /\ \A k \in DOMAIN data[1].TileMap.TileSet.Sources :
               \E i \in LastSourceLines :
                 data[1].TileMap.TileSet.Sources[k] = BuiltAt(i)

C21_Witness ==
  /\ pc = "done" /\ data # <<>>
  /\ \E i, k \in 1..Len(doc) :
       /\ i < k /\ SourceLineAt(i) /\ SourceLineAt(k) /\ doc[i].n = doc[k].n
       /\ k \in LastSourceLines
       /\ BuiltAt(i).Tiles # BuiltAt(k).Tiles
       /\ data[1].TileMap.TileSet.Sources = <<BuiltAt(k)>>

\* the scan of line idx, and the shape records before and after it
ScansLine == pc = "scan" /\ idx <= Len(doc) /\ idx' = idx + 1
ShapeRecordKept(r) ==
  /\ Has(c'.subResourceShapes, r)
  /\ c'.subResourceShapes[r].Type = c.subResourceShapes[r].Type
  /\ (doc[idx].hdr \/ r # currentSubResource) =>
        c'.subResourceShapes[r] = c.subResourceShapes[r]
ShapeRecordsAdded ==
  IF doc[idx].hdr /\ extractShapeType(doc[idx]) # ""
  THEN {extractSubResourceID(doc[idx])} ELSE {}

\* C22: the first sub_resource header that declares an id with a shape type
\* fixes the kind of the id's record: a later header of the same id changes
\* neither the kind nor the dimensions and points already set, and a size,
\* radius or points line changes only the record of the current sub-resource
\* and creates no record.
C22_FirstShapeHeaderFixesKind ==
  [][ScansLine =>
       /\ \A r \in DOMAIN c.subResourceShapes : ShapeRecordKept(r)
       /\ DOMAIN c'.subResourceShapes \subseteq
            DOMAIN c.subResourceShapes \cup ShapeRecordsAdded]_vars

\* the lines of a prefab sub-document up to the end of its first Sprite2D node
NodeHeadersOf(lines) == {i \in DOMAIN lines : lines[i].hdr /\ "node" \in lines[i].marks}
SpriteHeadersOf(lines) == {i \in NodeHeadersOf(lines) : "Sprite2D" \in lines[i].marks}
FirstSpriteEnd(lines) ==
  SetMin({j \in DOMAIN lines \cup {Len(lines) + 1} :
            /\ j > SetMin(SpriteHeadersOf(lines))
            /\ j \in DOMAIN lines => lines[j].hdr}) - 1
\* what the scan reads from the first Sprite2D node alone
FirstSpriteInfo(lines) ==
  IF SpriteHeadersOf(lines) = {} THEN NewPrefabInfo
  ELSE PrefabScan(PrefabScanStart, SubSeq(lines, 1, FirstSpriteEnd(lines)), 1).info
FirstNodeName(lines) ==
  IF NodeHeadersOf(lines) = {} THEN "" ELSE lines[SetMin(NodeHeadersOf(lines))].name
PrefabFileOf(resPath) == fs[resolvePrefabPath(resPath)][1]

\* C23: the PrefabInfo of a prefab sub-document has the pivot, scale, rotation,
\* z-index and texture of the document's first Sprite2D node, whatever later
\* Sprite2D nodes declare, and the name of the document's first node header.
C23_FirstSprite2DOnly ==
  \A resPath \in DOMAIN c.prefabCache :
     /\ c.prefabCache[resPath].Pivot = FirstSpriteInfo(PrefabFileOf(resPath)).Pivot
     /\ c.prefabCache[resPath].Scale = FirstSpriteInfo(PrefabFileOf(resPath)).Scale
     /\ c.prefabCache[resPath].Rotation = FirstSpriteInfo(PrefabFileOf(resPath)).Rotation
     /\ c.prefabCache[resPath].ZIndex = FirstSpriteInfo(PrefabFileOf(resPath)).ZIndex
     /\ c.prefabCache[resPath].Texture = FirstSpriteInfo(PrefabFileOf(resPath)).Texture
     /\ c.prefabCache[resPath].Name = FirstNodeName(PrefabFileOf(resPath))

\* the PrefabInfo read from the sub-document of the first instance node
InfoOfFirst == parsePrefabFile(resolvePrefabPath(data[1].Sprites[1].Path))
FirstEnriched ==
  /\ data # <<>> /\ data[1].Sprites # <<>>
  /\ Has(c.prefabCache, data[1].Sprites[1].Path)

PrefabsOfPath(path) ==
  {k \in DOMAIN data[1].Prefabs : data[1].Prefabs[k].Path = path /\ path # <<>>}
PrefabOfPath(path) == data[1].Prefabs[SetMax(PrefabsOfPath(path))]
\* the decorator ConvertToTilemap leaves for sprite j
DecoratorOf(j) == data[1].Decorators[DecoratorIndex(j)]
TakenFromPrefab(j, prefab) ==
  /\ DecoratorOf(j).Name = IF prefab.Name # "" THEN prefab.Name ELSE c.sprites[j].Name
  /\ DecoratorOf(j).Path = prefab.Texture
  /\ DecoratorOf(j).Pivot = prefab.Pivot
  /\ DecoratorOf(j).ZIndex = prefab.ZIndex
  /\ DecoratorOf(j).ColliderType = prefab.ColliderType
  /\ DecoratorOf(j).ColliderParams = prefab.ColliderParams
  /\ DecoratorOf(j).ColliderPivot = Vec(prefab.ColliderPivot.X, -prefab.ColliderPivot.Y)
  /\ DecoratorOf(j).Scale = Vec(c.sprites[j].Scale.X * prefab.Scale.X,
                                c.sprites[j].Scale.Y * prefab.Scale.Y)
TakenFromSprite(j) ==
  /\ DecoratorOf(j).Name = c.sprites[j].Name
  /\ DecoratorOf(j).Path = c.sprites[j].Path
  /\ DecoratorOf(j).Scale = c.sprites[j].Scale
  /\ DecoratorOf(j).ColliderPivot = Vec(0, 0)

C26_SequentialParsesIndependent ==
  /\ (pc = "done" /\ data # <<>>) => OwnResult = AloneResult(doc)
  /\ pc2 = "done" => result2 = AloneResult(doc2)

C26_Witness ==
  /\ pc = "done" /\ data # <<>> /\ pc2 = "done"
  /\ OwnResult = <<"odd", [Width |-> 0, Height |-> 0]>>
  /\ AloneBounds(doc).maxX > AloneBounds(doc2).maxX
  /\ result2 = <<"", [Width |-> 2, Height |-> 2]>>

\* the path an instance header on line i resolves from the lines before it
PathAt(i) ==
  IF doc[i].ref = "" \/ DeclsBefore(i, doc[i].ref) = {} THEN Unknown
  ELSE doc[SetMax(DeclsBefore(i, doc[i].ref))].path
InstanceHeaderAt(i) == doc[i].hdr /\ HeaderSection(doc[i]) = "sprite"
PathsOf(sprites) == [k \in DOMAIN sprites |-> sprites[k].Path]
\* the paths of a sprite list are those of the list before, with at most the
\* pending instance node's path appended
PathsKept(before, after, pending) ==
  \/ PathsOf(after) = PathsOf(before)
  \/ pending # <<>> /\ PathsOf(after) = Append(PathsOf(before), pending[1].Path)
\* the scan of one line resolves the path of a header's node and changes no
\* path resolved before
PathResolvedAtHeader ==
  ScansLine =>
     /\ PathsKept(c.sprites, c'.sprites, c.currentSprite)
     /\ IF InstanceHeaderAt(idx)
        THEN c'.currentSprite # <<>> /\ c'.currentSprite[1].Path = PathAt(idx)
        ELSE c'.currentSprite # <<>> =>
               /\ c.currentSprite # <<>>
               /\ c'.currentSprite[1].Path = c.currentSprite[1].Path
\* the end of the scan hands the paths over as they are
PathsReturned ==
  (pc = "scan" /\ pc' = "layers" /\ data' # <<>>) =>
     PathsKept(c.sprites, data'[1].Sprites, c.currentSprite)

\* C27: the path of an instance node is resolved when its header is scanned:
\* it is the path of the referenced external resource if the id was declared
\* on an earlier line, and "unknown" otherwise, and it stays what it was then
\* whatever the later lines declare.
C27_PathResolvedAtHeader == [][PathResolvedAtHeader /\ PathsReturned]_vars

C27_Witness ==
  /\ pc = "done" /\ data # <<>>
  /\ Len(doc) = 4
  /\ DeclaredAt(1) /\ InstanceHeaderAt(2) /\ InstanceHeaderAt(3) /\ DeclaredAt(4)
  /\ DeclId(4) = doc[2].ref /\ doc[4].path # Unknown
  /\ DeclId(1) = doc[3].ref
  /\ PathsOf(data[1].Sprites) = <<Unknown, doc[1].path>>

\* q is a / b with the fraction dropped: the multiple of b nearest to a on the
\* side of zero
IsTruncated(q, a, b) ==
  IF a >= 0 THEN q >= 0 /\ q * b <= a /\ a < (q + 1) * b
  ELSE q <= 0 /\ q * b >= a /\ a > (q - 1) * b
\* the tile-unit offsets of the configuration
MaxTileOffset == 5
TileOffsets ==
  {o \in (-MaxTileOffset .. MaxTileOffset) \X (-MaxTileOffset .. MaxTileOffset) :
     /\ IsTruncated(o[1], tilemapOffset.X, tilemapTileSize.Width)
     /\ IsTruncated(o[2], tilemapOffset.Y, tilemapTileSize.Height)}
AtlasInRange ==
  \A g \in 0..((Len(newData) \div 5) - 1) :
     /\ newData[5 * g + 4] \in 0..Mask16
     /\ newData[5 * g + 5] \in 0..Mask16

\* C28: under a configured pixel offset the group of a tile at (x, y) is
\* [sourceId, x + ox, -(y + oy), atlasX, atlasY], where (ox, oy) is the pixel
\* offset divided by the configured tile width and height with the fraction
\* dropped, and atlasX and atlasY lie in [0, 65535].
C28_OffsetBeforeNegation ==
  pc = "converted" =>
     /\ AtlasInRange
     /\ \A x \in Coords, y \in Coords, s \in SourceIds, a \in AtlasWords :
          tileData = <<Encode(x, y), ToWord(s), a>> =>
            \E o \in TileOffsets :
               newData = <<s, x + o[1], -(y + o[2]), a[2], a[1] % Wrap16>>

C28_Witness ==
  /\ pc = "converted"
  /\ tilemapOffset = Vec(-17, 40) /\ tilemapTileSize.Width = 16
  /\ tileData = <<Encode(1, -1), ToWord(3), Word(1, 2)>>
  /\ newData = <<3, 0, -1, 2, 1>>

\* the scan has just handed a position line to the handler of the section
PositionRead(section) ==
  /\ pc = "scan" /\ idx > 1
  /\ ~doc[idx - 1].hdr /\ doc[idx - 1].key = "position"
  /\ currentSection = section
PositionParses == Len(doc[idx - 1].vec) = 2
ReadX == doc[idx - 1].vec[1]
ReadY == doc[idx - 1].vec[2]
DecoratorPositionStored ==
  (PositionRead("decorator") /\ c.currentDecorator # <<>>) =>
     c.currentDecorator[1].Position =
       IF PositionParses THEN Vec(ReadX, -ReadY) ELSE Vec(0, 0)
InstancePositionStored ==
  (PositionRead("sprite") /\ c.currentSprite # <<>> /\ PositionParses) =>
     c.currentSprite[1].Position =
       Vec(ReadX + tilemapOffset.X, -(ReadY + tilemapOffset.Y))

PolygonScanned ==
  \E i \in 1..(idx - 1) :
     /\ ~doc[i].hdr /\ doc[i].key = "physics" /\ SectionAt(i) = "sub_resource"
     /\ Len(extractPolygonPoints(doc[i])) >= 4
\* every emitted layer starts with the tile (0, 0), moved by the tile-unit offset
LayersMovedBy(o) ==
  \A l \in DOMAIN data[1].TileMap.Layers :
     Len(data[1].TileMap.Layers[l].TileData) >= 5 =>
        /\ data[1].TileMap.Layers[l].TileData[2] = o[1]
        /\ data[1].TileMap.Layers[l].TileData[3] = -o[2]

\* C30: the tile size of the returned MapData is the configured one, 16x16
\* unless SetTileSize was called; the size a collision polygon of at least 4
\* points yields goes to the converter's own tile size only, and changes
\* neither the output nor the tile-unit offset of the layers.
C30_ConfiguredTileSize ==
  /\ tilemapTileSize \in {[Width |-> s, Height |-> s] : s \in TileSizes \cup {DefaultTile}}
  /\ data # <<>> =>
       /\ data[1].TileMap.TileSize = tilemapTileSize
       /\ pc \in {"validate", "done"} => \E o \in TileOffsets : LayersMovedBy(o)

C30_Witness ==
  /\ pc = "done" /\ data # <<>>
  /\ PolygonScanned
  /\ c.tileSize = [Width |-> 8, Height |-> 8]
  /\ tilemapOffset = Vec(40, -17)
  /\ data[1].TileMap.TileSize = [Width |-> DefaultTile, Height |-> DefaultTile]
  /\ Len(data[1].TileMap.Layers) = 1
  /\ data[1].TileMap.Layers[1].TileData[2] = 2
  /\ data[1].TileMap.Layers[1].TileData[3] = 1
=============================================================================
